---- MODULE Spec2Model ----
(***************************************************************************)
(* Ingestion pipeline of the crypto portfolio risk service: provider       *)
(* adapters (paginated fetch), storage (batch upsert, gap detection,       *)
(* backfill state), the three ingestion flows (backfill, catch-up,         *)
(* gap-fill) and the scheduler that drives them.                           *)
(*                                                                         *)
(* Time is counted in minutes.  A series row is [ts, val]: its timestamp   *)
(* and the revision of the provider data it was fetched from.              *)
(***************************************************************************)
EXTENDS Integers, Sequences, FiniteSets, TLC

\* ------------------------------------------------------------------ bounds
InitialBackfillDays == 1      \* settings.initial_backfill_days (730), scaled down
FuturesTargetDays == 1        \* target_days=730 of the futures backfills, scaled down
OITargetDays == 1             \* target_days=30 of the open-interest backfill, scaled down
OIRetentionDays == 1          \* the 30 days of min(target_days, 30), scaled down
OISampleHours == 8            \* hours between the open-interest records the exchange has
PageLimit == 2                \* records per provider page (1000 / 1500 / 500), scaled down
StartDays == 2                \* wall-clock day on which the behaviours start
MaxDays == 3                  \* the clock is not advanced beyond this day
MaxRev == 1                   \* times the provider revises the data it serves
MaxCalls == 2                 \* adapter calls of one handler that may be made to fail
MaxOps == 3                   \* handler invocations in one behaviour
MaxFirings == 2               \* timer firings of the scheduler in one behaviour
MaxTasks == 2                 \* concurrent tasks that call the provider clients
BinancePermits == 2           \* asyncio.Semaphore(10) of the Binance limiter, scaled down
AavePermits == 1              \* asyncio.Semaphore(5) of the Aave limiter, scaled down
Second == 1                   \* ticks in a second (10), scaled down
Minute == 6                   \* ticks in a minute (600), scaled down
DuneInterval == 3             \* ticks of min_request_interval (65 s), scaled down
MaxRetryAfter == 2            \* largest Retry-After (seconds) a provider sends
MaxErrors == 3                \* failed HTTP attempts in one behaviour
MaxCancels == 1               \* tasks cancelled in one behaviour
PanelDays == 3                \* days of the look-back window of an analysis request
StatsDays == 91                \* latest day of an aggregated-stats request
MaxLookback == 32             \* longest look-back a risk-profile request is served for
NumWorkers == 2               \* RQ worker processes
MaxFollowups == 1             \* follow-up prompts of the chat
MaxToolCalls == 1             \* store-writing tool calls of one agent run

\* ------------------------------------------------------- program constants
SpotIntervalHours == 12       \* spot.py: timedelta(hours=12)
FundingIntervalHours == 8     \* settings.futures_funding_interval_hours
KlinesIntervalHours == 8      \* settings.futures_klines_interval = "8h"
OIPeriodMinutes == 5          \* settings.futures_oi_period = "5m"
OIBackfillStepMinutes == 5    \* futures_backfill.py: timedelta(minutes=5)
binance_rate_limit_requests_per_minute == 5000   \* settings default
binance_request_delay_ms == 100                  \* settings default
aave_requests_per_minute == 100                  \* RateLimiter(requests_per_minute=100, ...)
aave_request_delay_ms == 200                     \* RateLimiter(..., request_delay_ms=200)
TickMs == binance_request_delay_ms               \* the tick of the client clock
TicksPerMinute == 60000 \div TickMs

None == -1                    \* Python None / SQL NULL for a timestamp
NaN == -2                     \* the missing value of a DataFrame column

Hours(h) == h * 60
Days(d) == d * 1440

Max(S) == CHOOSE x \in S : \A y \in S : y <= x
Min(S) == CHOOSE x \in S : \A y \in S : x <= y

RECURSIVE SortedSeq(_)
SortedSeq(S) == IF S = {} THEN <<>> ELSE <<Min(S)>> \o SortedSeq(S \ {Min(S)})

\* ------------------------------------------------------------------ streams
SpotAssets == {"BTC", "ETH"}
FuturesAssets == {"BTC", "ETH"}
LendingAssets == {"WETH", "USDC"}
FuturesMetrics == {"funding_rate", "mark_klines", "index_klines", "open_interest"}
Metrics == {"spot", "lending"} \cup FuturesMetrics

TrackedAssets(m) ==
    IF m = "spot" THEN SpotAssets
    ELSE IF m = "lending" THEN LendingAssets
    ELSE FuturesAssets

Streams == {s \in (SpotAssets \cup LendingAssets) \X Metrics : s[1] \in TrackedAssets(s[2])}

VARIABLES
    now,        \* datetime.now(timezone.utc)
    rev,        \* the revision of the data the provider currently serves
    holes,      \* instants for which the provider has no record
    tables,     \* tables[<<asset, metric>>]: the rows of that series table
    bstate,     \* bstate[<<asset, metric>>]: the row of the backfill-state table
    stream,     \* the (asset, metric) the direct calls of a behaviour address
    last,       \* what the latest handler invocation did
    pc,         \* the position of run_scheduler
    lending_fetcher,  \* SchedulerService.lending_fetcher is set
    running,    \* SchedulerService.running
    exec,       \* exec[<<job, origin>>]: the execution of the job from that origin
    fired,      \* fired[job]: the times the interval trigger of the job fired
    skipped,    \* skipped[job]: the firings the scheduler skipped
    task,       \* task[t]: the request task t makes of a provider client
    limiter,    \* limiter[c]: semaphore value, lock and last request of client c
    pause,      \* pause[c]: ticks left of the latest Retry-After of client c
    started,    \* started[c]: ages of the requests sent in the last minute
    align_pc,   \* the step calculate_risk_profile has reached in the alignment layer
    req_assets, \* the assets of the portfolio of the request
    gathered,   \* gathered[<<asset, kind>>]: the result of that storage read
    frames,     \* the spot, futures and lending dicts of DataFrames
    panel,      \* the aligned panel and its warnings
    response,   \* the latest request of the analysis API and its response
    chat,       \* the chat record in the Redis store
    rq,         \* the jobs enqueued and not yet taken by a worker
    api,        \* the follow-up request the API process is serving
    worker,     \* worker[w]: the job worker w is running and its position
    prompts,    \* the user prompts accepted so far
    written,    \* the store calls whose write has been executed
    handled,    \* the jobs that have run to their end
    lendings    \* lendings[asset]: the index columns of the rows of the lendings table

datavars == <<now, rev, holes, tables, bstate, stream, last>>
schedvars == <<pc, lending_fetcher, running, exec, fired, skipped>>
clientvars == <<task, limiter, pause, started>>
alignvars == <<align_pc, req_assets, gathered, frames, panel>>
apivars == <<response>>
chatvars == <<chat, rq, api, worker, prompts, written, handled>>
indexvars == <<lendings>>
servicevars == <<alignvars, apivars, chatvars, indexvars>>
vars == <<now, rev, holes, tables, bstate, stream, last,
          pc, lending_fetcher, running, exec, fired, skipped,
          task, limiter, pause, started,
          align_pc, req_assets, gathered, frames, panel, response,
          chat, rq, api, worker, prompts, written, handled, lendings>>

\* ------------------------------------------------------------------ storage
Timestamps(rows) == {r.ts : r \in rows}

get_latest_timestamp(rows) == IF rows = {} THEN None ELSE Max(Timestamps(rows))

get_earliest_timestamp(rows) == IF rows = {} THEN None ELSE Min(Timestamps(rows))

\* INSERT ... ON CONFLICT (asset, timestamp) DO UPDATE SET ... = EXCLUDED....
upsert_row_noconflict(rows, r) == rows \cup {r}
upsert_row(rows, r) == {x \in rows : x.ts # r.ts} \cup {r}

\* conn.executemany(query, batch_data): one statement per element, in order
RECURSIVE executemany(_, _, _)
executemany(rows, batch, i) ==
    IF i > Len(batch) THEN rows
    ELSE executemany(upsert_row(rows, batch[i]), batch, i + 1)

upsert_ohlcv_batch(rows, candles) ==
    IF candles = <<>> THEN rows ELSE executemany(rows, candles, 1)

upsert_funding_rates_batch(rows, rates) ==
    IF rates = <<>> THEN rows ELSE executemany(rows, rates, 1)

upsert_mark_klines_batch(rows, candles) ==
    IF candles = <<>> THEN rows ELSE executemany(rows, candles, 1)

upsert_index_klines_batch(rows, candles) ==
    IF candles = <<>> THEN rows ELSE executemany(rows, candles, 1)

upsert_open_interest_batch(rows, data_points) ==
    IF data_points = <<>> THEN rows ELSE executemany(rows, data_points, 1)

upsert_lending_batch(rows, events) ==
    IF events = <<>> THEN rows ELSE executemany(rows, events, 1)

\* The loop of detect_gaps that groups consecutive missing timestamps.
RECURSIVE group_missing(_, _, _, _, _, _)
group_missing(missing, i, gap_start, gap_end, interval_delta, gaps) ==
    IF i > Len(missing) THEN Append(gaps, <<gap_start, gap_end>>)
    ELSE IF missing[i] - gap_end = interval_delta
         THEN group_missing(missing, i + 1, gap_start, missing[i], interval_delta, gaps)
         ELSE group_missing(missing, i + 1, missing[i], missing[i], interval_delta,
                            Append(gaps, <<gap_start, gap_end>>))

detect_gaps(rows, interval_minutes) ==
    LET earliest == get_earliest_timestamp(rows)
        latest == get_latest_timestamp(rows)
    IN  IF earliest = None \/ latest = None THEN <<>>
        ELSE LET expected == {earliest + k * interval_minutes :
                                 k \in 0..((latest - earliest) \div interval_minutes)}
                 missing == SortedSeq(expected \ Timestamps(rows))
             IN  IF missing = <<>> THEN <<>>
                 ELSE group_missing(missing, 2, missing[1], missing[1],
                                    interval_minutes, <<>>)

detect_futures_gaps(rows, interval_minutes) ==
    LET earliest == get_earliest_timestamp(rows)
        latest == get_latest_timestamp(rows)
    IN  IF earliest = None \/ latest = None THEN <<>>
        ELSE LET expected == {earliest + k * interval_minutes :
                                 k \in 0..((latest - earliest) \div interval_minutes)}
                 missing == SortedSeq(expected \ Timestamps(rows))
             IN  IF missing = <<>> THEN <<>>
                 ELSE group_missing(missing, 2, missing[1], missing[1],
                                    interval_minutes, <<>>)

\* A row of a backfill-state table; exists = FALSE when the table has no row.
NoState == [exists |-> FALSE, completed |-> FALSE, last_fetched_timestamp |-> None]

update_backfill_state(completed, last_fetched_timestamp) ==
    [exists |-> TRUE, completed |-> completed,
     last_fetched_timestamp |-> last_fetched_timestamp]

never_completed(st) == FALSE
is_backfill_completed(st) == st.exists /\ st.completed

update_futures_backfill_state(completed, last_fetched_timestamp) ==
    [exists |-> TRUE, completed |-> completed,
     last_fetched_timestamp |-> last_fetched_timestamp]

is_futures_backfill_completed(st) == st.exists /\ st.completed

update_lending_backfill_state(completed, last_fetched_timestamp) ==
    [exists |-> TRUE, completed |-> completed,
     last_fetched_timestamp |-> last_fetched_timestamp]

is_lending_backfill_completed(st) == st.exists /\ st.completed


\* ----------------------------------------------------------------- provider
\* Minutes between the records the provider has of a metric.
ProviderStep(m) ==
    CASE m = "spot" -> Hours(SpotIntervalHours)
      [] m = "funding_rate" -> Hours(FundingIntervalHours)
      [] m \in {"mark_klines", "index_klines"} -> Hours(KlinesIntervalHours)
      [] m = "open_interest" -> Hours(OISampleHours)
      [] m = "lending" -> Days(1)

\* The instants for which the provider has a record of metric m: the points of
\* its grid up to now, less the provider's holes.
ProviderTimes(m) ==
    {t \in {k * ProviderStep(m) : k \in 0..(Days(MaxDays) \div ProviderStep(m))} :
        t <= now /\ t \notin holes}

\* One page of an endpoint taking startTime, endTime and limit: the first
\* `limit` records whose time lies in [start_time, end_time], ascending.  A
\* candle closes one unit before the next one opens; a funding rate and an
\* open-interest sample carry one instant only.
Page(m, start_time, end_time, limit) ==
    LET all == SortedSeq({t \in ProviderTimes(m) : start_time <= t /\ t <= end_time})
        n == IF Len(all) < limit THEN Len(all) ELSE limit
    IN  [i \in 1..n |->
            [open_time |-> all[i],
             close_time |-> IF m \in {"spot", "mark_klines", "index_klines"}
                            THEN all[i] + ProviderStep(m) - 1 ELSE all[i],
             val |-> rev]]

get_klines(start_time, end_time, limit) == Page("spot", start_time, end_time, limit)

get_funding_rate_history(start_time, end_time, limit) ==
    Page("funding_rate", start_time, end_time, limit)

get_mark_price_klines(start_time, end_time, limit) ==
    Page("mark_klines", start_time, end_time, limit)

get_index_price_klines(start_time, end_time, limit) ==
    Page("index_klines", start_time, end_time, limit)

get_open_interest_history(start_time, end_time, limit) ==
    Page("open_interest", start_time, end_time, limit)

\* while True: batch = get(current_start, end_time, limit); stop on an empty or
\* a short batch; current_start = last close time + 1; stop if >= end_time
RECURSIVE get_klines_paginated(_, _, _)
get_klines_paginated(current_start, end_time, all_klines) ==
    LET batch == get_klines(current_start, end_time, PageLimit)
        next_start == batch[Len(batch)].close_time + 1
    IN  IF batch = <<>> THEN all_klines
        ELSE IF Len(batch) < PageLimit THEN all_klines \o batch
        ELSE IF next_start >= end_time THEN all_klines \o batch
        ELSE get_klines_paginated(next_start, end_time, all_klines \o batch)

\* (the cursor left on the last record of the page)
RECURSIVE get_funding_rate_history_repeating(_, _, _)
get_funding_rate_history_repeating(current_start, end_time, all_rates) ==
    LET batch == get_funding_rate_history(current_start, end_time, PageLimit)
        next_start == batch[Len(batch)].open_time
    IN  IF batch = <<>> THEN all_rates
        ELSE IF Len(batch) < PageLimit THEN all_rates \o batch
        ELSE IF next_start >= end_time THEN all_rates \o batch
        ELSE get_funding_rate_history_repeating(next_start, end_time, all_rates \o batch)

RECURSIVE get_funding_rate_history_paginated(_, _, _)
get_funding_rate_history_paginated(current_start, end_time, all_rates) ==
    LET batch == get_funding_rate_history(current_start, end_time, PageLimit)
        next_start == batch[Len(batch)].open_time + 1
    IN  IF batch = <<>> THEN all_rates
        ELSE IF Len(batch) < PageLimit THEN all_rates \o batch
        ELSE IF next_start >= end_time THEN all_rates \o batch
        ELSE get_funding_rate_history_paginated(next_start, end_time, all_rates \o batch)

RECURSIVE get_mark_price_klines_paginated(_, _, _)
get_mark_price_klines_paginated(current_start, end_time, all_klines) ==
    LET batch == get_mark_price_klines(current_start, end_time, PageLimit)
        next_start == batch[Len(batch)].close_time + 1
    IN  IF batch = <<>> THEN all_klines
        ELSE IF Len(batch) < PageLimit THEN all_klines \o batch
        ELSE IF next_start >= end_time THEN all_klines \o batch
        ELSE get_mark_price_klines_paginated(next_start, end_time, all_klines \o batch)

RECURSIVE get_index_price_klines_paginated(_, _, _)
get_index_price_klines_paginated(current_start, end_time, all_klines) ==
    LET batch == get_index_price_klines(current_start, end_time, PageLimit)
        next_start == batch[Len(batch)].close_time + 1
    IN  IF batch = <<>> THEN all_klines
        ELSE IF Len(batch) < PageLimit THEN all_klines \o batch
        ELSE IF next_start >= end_time THEN all_klines \o batch
        ELSE get_index_price_klines_paginated(next_start, end_time, all_klines \o batch)

RECURSIVE get_open_interest_history_paginated(_, _, _)
get_open_interest_history_paginated(current_start, end_time, all_data) ==
    LET batch == get_open_interest_history(current_start, end_time, PageLimit)
        next_start == batch[Len(batch)].open_time + 1
    IN  IF batch = <<>> THEN all_data
        ELSE IF Len(batch) < PageLimit THEN all_data \o batch
        ELSE IF next_start >= end_time THEN all_data \o batch
        ELSE get_open_interest_history_paginated(next_start, end_time, all_data \o batch)

\* Dune returns every snapshot it has, of every asset, in one result.
get_lending_data == Page("lending", 0, now, Cardinality(ProviderTimes("lending")))

\* BinanceKline.to_ohlcv, Binance*.to_dict, DuneLendingData.to_dict: the row
\* is stamped with the record's open (funding, sample) time.
to_dict(rec) == [ts |-> rec.open_time, val |-> rec.val]

ToRows(recs) == [i \in 1..Len(recs) |-> to_dict(recs[i])]

\* ----------------------------------------------------------------- fetchers
\* The result of a fetcher method: whether it raised, the table after it, the
\* count it returns, and the ranges it asked the adapter for.
Req(s, e, ok) == [s |-> s, e |-> e, ok |-> ok]

Raised(rows, start_time, end_time) ==
    [raised |-> TRUE, rows |-> rows, count |-> 0,
     reqs |-> <<Req(start_time, end_time, FALSE)>>]

Stored(rows, n, start_time, end_time) ==
    [raised |-> FALSE, rows |-> rows, count |-> n,
     reqs |-> <<Req(start_time, end_time, TRUE)>>]

NoCall(rows) == [raised |-> FALSE, rows |-> rows, count |-> 0, reqs |-> <<>>]

\* fetch_and_store_*: `failed` says that the adapter (after its retries) or the
\* upsert transaction raises; store_* is the part after the adapter returned.

store_range(rows, fetched, start_time, end_time) ==
    IF fetched = <<>> THEN Stored(rows, 0, start_time, end_time)
    ELSE Stored(upsert_ohlcv_batch(rows, ToRows(fetched)), Len(fetched), start_time, end_time)

fetch_and_store_range(rows, start_time, end_time, failed) ==
    IF failed THEN Raised(rows, start_time, end_time)
    ELSE store_range(rows, get_klines_paginated(start_time, end_time, <<>>), start_time, end_time)

store_funding_rates(rows, fetched, start_time, end_time) ==
    IF fetched = <<>> THEN Stored(rows, 0, start_time, end_time)
    ELSE Stored(upsert_funding_rates_batch(rows, ToRows(fetched)), Len(fetched), start_time, end_time)

fetch_and_store_funding_rates(rows, start_time, end_time, failed) ==
    IF failed THEN Raised(rows, start_time, end_time)
    ELSE store_funding_rates(rows, get_funding_rate_history_paginated(start_time, end_time, <<>>), start_time, end_time)

store_mark_klines(rows, fetched, start_time, end_time) ==
    IF fetched = <<>> THEN Stored(rows, 0, start_time, end_time)
    ELSE Stored(upsert_mark_klines_batch(rows, ToRows(fetched)), Len(fetched), start_time, end_time)

fetch_and_store_mark_klines(rows, start_time, end_time, failed) ==
    IF failed THEN Raised(rows, start_time, end_time)
    ELSE store_mark_klines(rows, get_mark_price_klines_paginated(start_time, end_time, <<>>), start_time, end_time)

store_index_klines(rows, fetched, start_time, end_time) ==
    IF fetched = <<>> THEN Stored(rows, 0, start_time, end_time)
    ELSE Stored(upsert_index_klines_batch(rows, ToRows(fetched)), Len(fetched), start_time, end_time)

fetch_and_store_index_klines(rows, start_time, end_time, failed) ==
    IF failed THEN Raised(rows, start_time, end_time)
    ELSE store_index_klines(rows, get_index_price_klines_paginated(start_time, end_time, <<>>), start_time, end_time)

store_open_interest(rows, fetched, start_time, end_time) ==
    IF fetched = <<>> THEN Stored(rows, 0, start_time, end_time)
    ELSE Stored(upsert_open_interest_batch(rows, ToRows(fetched)), Len(fetched), start_time, end_time)

fetch_and_store_open_interest(rows, start_time, end_time, failed) ==
    IF failed THEN Raised(rows, start_time, end_time)
    ELSE store_open_interest(rows, get_open_interest_history_paginated(start_time, end_time, <<>>), start_time, end_time)

\* The range fetch of metric m.
fetch_and_store(m, rows, start_time, end_time, failed) ==
    CASE m = "spot" -> fetch_and_store_range(rows, start_time, end_time, failed)
      [] m = "funding_rate" ->
            fetch_and_store_funding_rates(rows, start_time, end_time, failed)
      [] m = "mark_klines" ->
            fetch_and_store_mark_klines(rows, start_time, end_time, failed)
      [] m = "index_klines" ->
            fetch_and_store_index_klines(rows, start_time, end_time, failed)
      [] m = "open_interest" ->
            fetch_and_store_open_interest(rows, start_time, end_time, failed)

\* ----------------------------------------------------------------- catch-up

fetch_latest_from_latest(rows, fails) ==
    LET latest == get_latest_timestamp(rows)
    IN  IF latest = None THEN NoCall(rows)
        ELSE IF latest + Hours(SpotIntervalHours) > now THEN NoCall(rows)
        ELSE fetch_and_store_range(rows, latest, now, 1 \in fails)

fetch_latest(rows, fails) ==
    LET latest == get_latest_timestamp(rows)
    IN  IF latest = None THEN NoCall(rows)
        ELSE IF latest + Hours(SpotIntervalHours) > now THEN NoCall(rows)
        ELSE fetch_and_store_range(rows, latest + Hours(SpotIntervalHours), now, 1 \in fails)

fetch_latest_funding_rates(rows, fails) ==
    LET latest == get_latest_timestamp(rows)
    IN  IF latest = None THEN NoCall(rows)
        ELSE IF latest + Hours(FundingIntervalHours) > now THEN NoCall(rows)
        ELSE fetch_and_store_funding_rates(rows, latest + Hours(FundingIntervalHours), now, 1 \in fails)

fetch_latest_mark_klines(rows, fails) ==
    LET latest == get_latest_timestamp(rows)
    IN  IF latest = None THEN NoCall(rows)
        ELSE IF latest + Hours(KlinesIntervalHours) > now THEN NoCall(rows)
        ELSE fetch_and_store_mark_klines(rows, latest + Hours(KlinesIntervalHours), now, 1 \in fails)

fetch_latest_index_klines(rows, fails) ==
    LET latest == get_latest_timestamp(rows)
    IN  IF latest = None THEN NoCall(rows)
        ELSE IF latest + Hours(KlinesIntervalHours) > now THEN NoCall(rows)
        ELSE fetch_and_store_index_klines(rows, latest + Hours(KlinesIntervalHours), now, 1 \in fails)

fetch_latest_open_interest(rows, fails) ==
    LET latest == get_latest_timestamp(rows)
    IN  IF latest = None THEN NoCall(rows)
        ELSE IF latest + OIPeriodMinutes > now THEN NoCall(rows)
        ELSE fetch_and_store_open_interest(rows, latest + OIPeriodMinutes, now, 1 \in fails)

\* ----------------------------------------------------------------- gap-fill
\* total_filled += count of one gap's fetch; its exception is logged and dropped
Continue(acc, r) ==
    [raised |-> FALSE, rows |-> r.rows, count |-> acc.count + r.count,
     reqs |-> acc.reqs \o r.reqs]

Propagate(acc, r) ==
    [raised |-> r.raised, rows |-> r.rows, count |-> acc.count + r.count,
     reqs |-> acc.reqs \o r.reqs]

\* for gap_start, gap_end in gaps: try: fetch and store the gap; except: log
\* and go on with the next gap.  Gap i is adapter call base + i of the handler.
RECURSIVE fill_gaps_loop_stop(_, _, _, _, _, _)
fill_gaps_loop_stop(m, acc, gaps, i, fails, base) ==
    IF i > Len(gaps) \/ acc.raised THEN acc
    ELSE fill_gaps_loop_stop(m,
             Propagate(acc, fetch_and_store(m, acc.rows, gaps[i][1], gaps[i][2],
                                            (base + i) \in fails)),
             gaps, i + 1, fails, base)

RECURSIVE fill_gaps_loop(_, _, _, _, _, _)
fill_gaps_loop(m, acc, gaps, i, fails, base) ==
    IF i > Len(gaps) THEN acc
    ELSE fill_gaps_loop(m,
             Continue(acc, fetch_and_store(m, acc.rows, gaps[i][1], gaps[i][2],
                                           (base + i) \in fails)),
             gaps, i + 1, fails, base)

fill_detected(m, rows, gaps, fails, base) ==
    IF gaps = <<>> THEN NoCall(rows)
    ELSE fill_gaps_loop(m, NoCall(rows), gaps, 1, fails, base)

fill_gaps(rows, fails, base) ==
    fill_detected("spot", rows, detect_gaps(rows, Hours(SpotIntervalHours)), fails, base)

fill_funding_rate_gaps(rows, fails, base) ==
    fill_detected("funding_rate", rows,
                  detect_futures_gaps(rows, Hours(FundingIntervalHours)), fails, base)

fill_mark_klines_gaps(rows, fails, base) ==
    fill_detected("mark_klines", rows,
                  detect_futures_gaps(rows, Hours(KlinesIntervalHours)), fails, base)

fill_index_klines_gaps(rows, fails, base) ==
    fill_detected("index_klines", rows,
                  detect_futures_gaps(rows, Hours(KlinesIntervalHours)), fails, base)

\* The gap-fill of metric m.
gap_fill(m, rows, fails, base) ==
    CASE m = "spot" -> fill_gaps(rows, fails, base)
      [] m = "funding_rate" -> fill_funding_rate_gaps(rows, fails, base)
      [] m = "mark_klines" -> fill_mark_klines_gaps(rows, fails, base)
      [] m = "index_klines" -> fill_index_klines_gaps(rows, fails, base)

\* The interval the code assumes between two rows of a metric.
Interval(m) ==
    CASE m = "spot" -> Hours(SpotIntervalHours)
      [] m = "funding_rate" -> Hours(FundingIntervalHours)
      [] m \in {"mark_klines", "index_klines"} -> Hours(KlinesIntervalHours)
      [] m = "open_interest" -> OIPeriodMinutes

GapFilled == {"spot", "funding_rate", "mark_klines", "index_klines"}
RangeFetched == GapFilled \cup {"open_interest"}

\* ------------------------------------------------------------------ lending
LendingStreams == {s \in Streams : s[2] = "lending"}

\* One Dune query serves every asset; the rows of each asset are upserted.
store_dune_lending(tabs, lending_data_list) ==
    IF lending_data_list = <<>>
    THEN [raised |-> FALSE, tabs |-> tabs, count |-> 0, reqs |-> <<Req(None, None, TRUE)>>]
    ELSE [raised |-> FALSE,
          tabs |-> [s \in Streams |->
                      IF s \in LendingStreams
                      THEN upsert_lending_batch(tabs[s], ToRows(lending_data_list))
                      ELSE tabs[s]],
          count |-> Len(lending_data_list),
          reqs |-> <<Req(None, None, TRUE)>>]

fetch_dune_lending(tabs, failed) ==
    IF failed
    THEN [raised |-> TRUE, tabs |-> tabs, count |-> 0, reqs |-> <<Req(None, None, FALSE)>>]
    ELSE store_dune_lending(tabs, get_lending_data)

fetch_for_asset(tabs, asset, failed) == fetch_dune_lending(tabs, failed)

\* ----------------------------------------------------------------- backfill
\* What a backfill leaves: the tables and the backfill-state row after it, the
\* "status" it returns and the ranges it asked the adapter for.
Outcome(tabs, st, status, reqs) ==
    [tabs |-> tabs, state |-> st, status |-> status, reqs |-> reqs]

Put(tabs, s, rows) == [tabs EXCEPT ![s] = rows]

\* BackfillManager.backfill_asset (spot), from its last step to its first.
\* except Exception: completed=False, last_fetched_timestamp=current latest
backfill_failed(tabs, s, rows, reqs) ==
    Outcome(Put(tabs, s, rows), update_backfill_state(FALSE, get_latest_timestamp(rows)),
            "failed", reqs)

\* final_latest = get_latest_timestamp(asset); completed=True
backfill_completed(tabs, s, fetched, gaps_filled) ==
    Outcome(Put(tabs, s, gaps_filled.rows),
            update_backfill_state(TRUE, get_latest_timestamp(gaps_filled.rows)),
            "completed", fetched \o gaps_filled.reqs)

\* after the catch-up: fill the gaps
backfill_caught_up(tabs, s, fails, fetched, catch_up) ==
    IF catch_up.raised THEN backfill_failed(tabs, s, catch_up.rows, fetched \o catch_up.reqs)
    ELSE backfill_completed(tabs, s, fetched \o catch_up.reqs,
                            fill_gaps(catch_up.rows, fails,
                                      Len(fetched) + Len(catch_up.reqs)))

\* after the main fetch: catch up to the present if there was data before
backfill_fetched(tabs, s, fails, latest_existing, main) ==
    IF main.raised THEN backfill_failed(tabs, s, main.rows, main.reqs)
    ELSE backfill_caught_up(tabs, s, fails, main.reqs,
             IF latest_existing # None /\ latest_existing + Hours(SpotIntervalHours) < now
             THEN fetch_and_store_range(main.rows,
                                        latest_existing + Hours(SpotIntervalHours), now,
                                        2 \in fails)
             ELSE NoCall(main.rows))

\* already sufficient: fill the gaps and mark complete
backfill_sufficient(tabs, s, latest_existing, filled) ==
    Outcome(Put(tabs, s, filled.rows), update_backfill_state(TRUE, latest_existing),
            "completed", filled.reqs)

backfill_asset(tabs, s, st, force, fails) ==
    LET target_start == now - Days(InitialBackfillDays)
        earliest_existing == get_earliest_timestamp(tabs[s])
        latest_existing == get_latest_timestamp(tabs[s])
        existing == earliest_existing # None /\ latest_existing # None
    IN  IF ~force /\ is_backfill_completed(st) THEN Outcome(tabs, st, "skipped", <<>>)
        ELSE IF existing /\ earliest_existing <= target_start
        THEN backfill_sufficient(tabs, s, latest_existing, fill_gaps(tabs[s], fails, 0))
        ELSE backfill_fetched(tabs, s, fails, latest_existing,
                 fetch_and_store_range(tabs[s], target_start,
                     IF existing THEN earliest_existing - Hours(SpotIntervalHours)
                     ELSE now,
                     1 \in fails))

\* FuturesBackfillManager.backfill_funding_rates, backfill_mark_klines and
\* backfill_index_klines, which differ in the metric only.
\* try: fetch; fill gaps; completed=True with fetch_end.  except: return "failed"
futures_backfill_filled(tabs, s, fetch_end, main_reqs, gaps) ==
    Outcome(Put(tabs, s, gaps.rows), update_futures_backfill_state(TRUE, fetch_end),
            "success", main_reqs \o gaps.reqs)

futures_backfill_fetched(tabs, s, st, fails, fetch_end, main) ==
    IF main.raised THEN Outcome(Put(tabs, s, main.rows), st, "failed", main.reqs)
    ELSE futures_backfill_filled(tabs, s, fetch_end, main.reqs,
                                 gap_fill(s[2], main.rows, fails, 1))

futures_backfill_sufficient(tabs, s, latest, filled) ==
    Outcome(Put(tabs, s, filled.rows), update_futures_backfill_state(TRUE, latest),
            "completed", filled.reqs)

\* (the main fetch running up to the earliest stored row itself)
futures_backfill_to_earliest(tabs, s, st, target_days, force, fails) ==
    LET target_start == now - Days(target_days)
        earliest == get_earliest_timestamp(tabs[s])
        latest == get_latest_timestamp(tabs[s])
        fetch_end == IF earliest # None THEN earliest ELSE now
    IN  IF ~force /\ is_futures_backfill_completed(st)
        THEN Outcome(tabs, st, "skipped", <<>>)
        ELSE IF earliest # None /\ earliest <= target_start
        THEN futures_backfill_sufficient(tabs, s, latest, gap_fill(s[2], tabs[s], fails, 0))
        ELSE futures_backfill_fetched(tabs, s, st, fails, fetch_end,
                 fetch_and_store(s[2], tabs[s], target_start, fetch_end, 1 \in fails))

futures_backfill(tabs, s, st, target_days, force, fails) ==
    LET target_start == now - Days(target_days)
        earliest == get_earliest_timestamp(tabs[s])
        latest == get_latest_timestamp(tabs[s])
        fetch_end == IF earliest # None THEN earliest - Interval(s[2]) ELSE now
    IN  IF ~force /\ is_futures_backfill_completed(st)
        THEN Outcome(tabs, st, "skipped", <<>>)
        ELSE IF earliest # None /\ earliest <= target_start
        THEN futures_backfill_sufficient(tabs, s, latest, gap_fill(s[2], tabs[s], fails, 0))
        ELSE futures_backfill_fetched(tabs, s, st, fails, fetch_end,
                 fetch_and_store(s[2], tabs[s], target_start, fetch_end, 1 \in fails))

backfill_funding_rates(tabs, s, st, target_days, force, fails) ==
    futures_backfill(tabs, s, st, target_days, force, fails)

backfill_mark_klines(tabs, s, st, target_days, force, fails) ==
    futures_backfill(tabs, s, st, target_days, force, fails)

backfill_index_klines(tabs, s, st, target_days, force, fails) ==
    futures_backfill(tabs, s, st, target_days, force, fails)

\* FuturesBackfillManager.backfill_open_interest: no gap-fill
open_interest_fetched(tabs, s, st, fetch_end, main) ==
    IF main.raised THEN Outcome(Put(tabs, s, main.rows), st, "failed", main.reqs)
    ELSE Outcome(Put(tabs, s, main.rows), update_futures_backfill_state(TRUE, fetch_end),
                 "success", main.reqs)

backfill_open_interest(tabs, s, st, target_days, force, fails) ==
    LET capped == IF target_days < OIRetentionDays THEN target_days ELSE OIRetentionDays
        target_start == now - Days(capped)
        earliest == get_earliest_timestamp(tabs[s])
        latest == get_latest_timestamp(tabs[s])
        fetch_end == IF earliest # None THEN earliest - OIBackfillStepMinutes ELSE now
    IN  IF ~force /\ is_futures_backfill_completed(st)
        THEN Outcome(tabs, st, "skipped", <<>>)
        ELSE IF earliest # None /\ earliest <= target_start
        THEN Outcome(tabs, update_futures_backfill_state(TRUE, latest), "completed", <<>>)
        ELSE open_interest_fetched(tabs, s, st, fetch_end,
                 fetch_and_store_open_interest(tabs[s], target_start, fetch_end,
                                               1 \in fails))

\* LendingBackfillManager.backfill_asset
lending_fetched(s, st, fetched) ==
    IF fetched.raised THEN Outcome(fetched.tabs, st, "failed", fetched.reqs)
    ELSE Outcome(fetched.tabs,
                 IF get_latest_timestamp(fetched.tabs[s]) # None
                 THEN update_lending_backfill_state(TRUE,
                                                    get_latest_timestamp(fetched.tabs[s]))
                 ELSE st,
                 "completed", fetched.reqs)

lending_backfill_asset(tabs, s, st, force, fails) ==
    IF ~force /\ is_lending_backfill_completed(st)
    THEN Outcome(tabs, st, "skipped", <<>>)
    ELSE lending_fetched(s, st, fetch_for_asset(tabs, s[1], 1 \in fails))

\* The backfill of a stream, as backfill_all, backfill_asset_all_metrics and
\* backfill_all_assets call it.
backfill(tabs, s, st, force, fails) ==
    CASE s[2] = "spot" -> backfill_asset(tabs, s, st, force, fails)
      [] s[2] = "funding_rate" ->
            backfill_funding_rates(tabs, s, st, FuturesTargetDays, force, fails)
      [] s[2] = "mark_klines" ->
            backfill_mark_klines(tabs, s, st, FuturesTargetDays, force, fails)
      [] s[2] = "index_klines" ->
            backfill_index_klines(tabs, s, st, FuturesTargetDays, force, fails)
      [] s[2] = "open_interest" ->
            backfill_open_interest(tabs, s, st, OITargetDays, force, fails)
      [] s[2] = "lending" -> lending_backfill_asset(tabs, s, st, force, fails)

\* The catch-up of a stream, as fetch_all_latest and FuturesFetcher.fetch_latest
\* call it.
catch_up(m, rows, fails) ==
    CASE m = "spot" -> fetch_latest(rows, fails)
      [] m = "funding_rate" -> fetch_latest_funding_rates(rows, fails)
      [] m = "mark_klines" -> fetch_latest_mark_klines(rows, fails)
      [] m = "index_klines" -> fetch_latest_index_klines(rows, fails)
      [] m = "open_interest" -> fetch_latest_open_interest(rows, fails)

\* ------------------------------------------------------------ specification
\* Instants at which the provider may lack a record of a metric.
HoleCandidates(m) ==
    {t \in {Days(StartDays) - Hours(12), Days(StartDays) - Hours(8)} :
        m # "lending" /\ t % ProviderStep(m) = 0}

AdvanceSteps == {Hours(8), Hours(12)}
\* The ranges of the direct range fetches: each single day start, and the day
\* before the start of the behaviour.
Ranges ==
    {<<Days(d), Days(d)>> : d \in 1..MaxDays} \cup {<<Days(StartDays - 1), Days(StartDays)>>}

\* The streams the direct calls of a behaviour may address: those of the first
\* tracked asset of each list.
FocusStreams == {s \in Streams : s[1] \in {"BTC", "WETH"}}
FailSets == SUBSET (1..MaxCalls)

\* `last` tells what the latest handler invocation did: which handler (op),
\* its force flag, the status it returned, the adapter requests it made and
\* the number of timestamps it added to the table of the stream; `k` counts
\* the handler invocations so far.
Ran(op, force, status, reqs, tabs) ==
    [op |-> op, k |-> last.k + 1, force |-> force, status |-> status, reqs |-> reqs,
     added |-> Cardinality(Timestamps(tabs[stream]) \ Timestamps(tables[stream]))]

Elapsed ==
    [op |-> "none", k |-> last.k, force |-> FALSE, status |-> "", reqs |-> <<>>,
     added |-> 0]

\* ------------------------------------------------------- provider clients
\* One request of a provider client (BinanceClient._request_with_retry,
\* AaveClient._execute_query, DuneClient.get_lending_data) made by each of a
\* few concurrent asyncio tasks.  Time is counted in ticks of TickMs
\* milliseconds, relative to the present: a timer is the time left of a sleep.
\* A step of a task runs the coroutine from one suspension to the next.
Clients == {"binance", "aave", "dune"}
ClientTasks == 1..MaxTasks
Responses == {"ok", "429", "5xx", "4xx", "network"}
RetryAfters == 1..MaxRetryAfter

max_retries == 3

\* The request_delay of the client's limiter, in ticks
request_delay(c) ==
    CASE c = "binance" -> binance_request_delay_ms \div TickMs
      [] c = "aave" -> aave_request_delay_ms \div TickMs
      [] c = "dune" -> DuneInterval

\* asyncio.Semaphore(n) of the client's RateLimiter; DuneClient has none
semaphore_value(c) ==
    CASE c = "binance" -> BinancePermits
      [] c = "aave" -> AavePermits
      [] c = "dune" -> 0

has_rate_limiter(c) == c \in {"binance", "aave"}

\* RateLimiter.requests_per_minute, for the Minute of the model
requests_per_minute(c) ==
    CASE c = "binance" -> (binance_rate_limit_requests_per_minute * Minute) \div TicksPerMinute
      [] c = "aave" -> (aave_requests_per_minute * Minute) \div TicksPerMinute

NoTask == [client |-> "none", pc |-> "idle", attempt |-> 0, timer |-> 0,
           attempts |-> 0, errors |-> 0, resp |-> "none", permit |-> FALSE]

\* The jobs of the scheduler (the ids they are added with), and the two ways an
\* execution of a job starts: submitted by the scheduler when the job's interval
\* trigger fires, or awaited by run_scheduler right after the start.
Jobs == {"fetch_ohlcv", "fetch_futures", "fetch_lending"}
Origins == {"timer", "immediate"}
Executions == Jobs \X Origins

\* An execution: the call it is about to make (0: not in progress), whether a
\* call of it raised, whether it made a call after one had raised, and the
\* calls it attempted.
NotRunning == [pos |-> 0, raised |-> FALSE, went_on |-> FALSE, attempted |-> {}]
Entered == [pos |-> 1, raised |-> FALSE, went_on |-> FALSE, attempted |-> {}]

Init ==
    /\ now = Days(StartDays)
    /\ rev = 0
    /\ stream \in FocusStreams
    /\ holes \in SUBSET HoleCandidates(stream[2])
    /\ tables = [s \in Streams |-> {}]
    /\ bstate = [s \in Streams |-> NoState]
    /\ last = [op |-> "none", k |-> 0, force |-> FALSE, status |-> "", reqs |-> <<>>,
               added |-> 0]
    /\ pc = "initialize"
    /\ lending_fetcher = FALSE
    /\ running = FALSE
    /\ exec = [e \in Executions |-> NotRunning]
    /\ fired = [j \in Jobs |-> 0]
    /\ skipped = [j \in Jobs |-> 0]
    /\ task = [t \in 1..MaxTasks |-> NoTask]
    /\ limiter = [c \in {"binance", "aave", "dune"} |->
                    [value |-> semaphore_value(c), locked |-> FALSE,
                     elapsed |-> request_delay(c)]]
    /\ pause = [c \in {"binance", "aave", "dune"} |-> 0]
    /\ started = [c \in {"binance", "aave", "dune"} |-> <<>>]
    /\ align_pc = "idle"
    /\ req_assets = {}
    /\ gathered = <<>>
    /\ frames = [raised |-> FALSE, spot |-> <<>>, futures |-> <<>>, lending |-> <<>>,
                 actual_days |-> 0]
    /\ panel = [raised |-> FALSE, timestamp |-> {}, columns |-> <<>>, warnings |-> {}]
    /\ response = [endpoint |-> "none", assets |-> {}, start |-> 0, end |-> 0, status |-> 0,
                 positions |-> <<>>, lookback_days |-> 0, coverage |-> 0, body |-> <<>>]
    /\ chat = [exists |-> FALSE, status |-> "none", messages |-> <<>>, portfolio |-> <<>>,
               portfolio_versions |-> <<>>]
    /\ rq = <<>>
    /\ api = [pc |-> "idle", prompt |-> 0, record |-> chat]
    /\ worker = [w \in 1..NumWorkers |->
                    [pc |-> "idle", job |-> 0, record |-> chat, steps |-> 0, op |-> "none",
                     success |-> TRUE, reasonings |-> <<>>, current_portfolio |-> <<>>]]
    /\ prompts = 0
    /\ written = {}
    /\ handled = {}
    /\ lendings = [asset \in LendingAssets |-> {}]

\* Wall-clock time passes; the provider gains the records that fall due.
Tick(d) ==
    /\ now + d <= Days(MaxDays)
    /\ now' = now + d
    /\ last' = Elapsed
    /\ UNCHANGED <<rev, holes, tables, bstate, stream>>
    /\ UNCHANGED <<schedvars, clientvars, servicevars>>

\* The provider revises the values it serves (an open candle closes, a
\* snapshot is recomputed).
ProviderRevise ==
    /\ rev < MaxRev
    /\ rev' = rev + 1
    /\ last' = Elapsed
    /\ UNCHANGED <<now, holes, tables, bstate, stream>>
    /\ UNCHANGED <<schedvars, clientvars, servicevars>>

\* The provider publishes a record it lacked.
ProviderHeal(h) ==
    /\ h \in holes
    /\ holes' = holes \ {h}
    /\ last' = Elapsed
    /\ UNCHANGED <<now, rev, tables, bstate, stream>>
    /\ UNCHANGED <<schedvars, clientvars, servicevars>>

Returned(r) == IF r.raised THEN "raised" ELSE "returned"

BackfillReturns(force, out) ==
    /\ tables' = out.tabs
    /\ bstate' = [bstate EXCEPT ![stream] = out.state]
    /\ last' = Ran("backfill", force, out.status, out.reqs, out.tabs)

FetcherReturns(op, r) ==
    /\ tables' = [tables EXCEPT ![stream] = r.rows]
    /\ last' = Ran(op, FALSE, Returned(r), r.reqs, [tables EXCEPT ![stream] = r.rows])

LendingReturns(op, r) ==
    /\ tables' = r.tabs
    /\ last' = Ran(op, FALSE, Returned(r), r.reqs, r.tabs)

\* backfill of the stream (initial backfill, or a forced one)
Backfill(force, fails) ==
    /\ last.k < MaxOps
    /\ BackfillReturns(force, backfill(tables, stream, bstate[stream], force, fails))
    /\ UNCHANGED <<now, rev, holes, stream>>
    /\ UNCHANGED <<schedvars, clientvars, servicevars>>

\* catch-up of the stream (fetch_latest*)
CatchUp(fails) ==
    /\ last.k < MaxOps
    /\ stream[2] \in RangeFetched
    /\ FetcherReturns("catch_up", catch_up(stream[2], tables[stream], fails))
    /\ UNCHANGED <<now, rev, holes, bstate, stream>>
    /\ UNCHANGED <<schedvars, clientvars, servicevars>>

\* gap-fill of the stream (fill_gaps, fill_*_gaps)
FillGaps(fails) ==
    /\ last.k < MaxOps
    /\ stream[2] \in GapFilled
    /\ FetcherReturns("fill_gaps", gap_fill(stream[2], tables[stream], fails, 0))
    /\ UNCHANGED <<now, rev, holes, bstate, stream>>
    /\ UNCHANGED <<schedvars, clientvars, servicevars>>

\* a range fetch of the stream (fetch_and_store_*)
FetchRange(start_time, end_time, failed) ==
    /\ last.k < MaxOps
    /\ stream[2] \in RangeFetched
    /\ FetcherReturns("fetch_range",
                      fetch_and_store(stream[2], tables[stream], start_time, end_time,
                                      failed))
    /\ UNCHANGED <<now, rev, holes, bstate, stream>>
    /\ UNCHANGED <<schedvars, clientvars, servicevars>>

\* a fetch of the lending snapshots (fetch_for_asset, fetch_all_assets)
LendingFetch(failed) ==
    /\ last.k < MaxOps
    /\ stream[2] = "lending"
    /\ LendingReturns("fetch_range", fetch_for_asset(tables, stream[1], failed))
    /\ UNCHANGED <<now, rev, holes, bstate, stream>>
    /\ UNCHANGED <<schedvars, clientvars, servicevars>>

Next ==
    \/ \E d \in AdvanceSteps : Tick(d)
    \/ ProviderRevise
    \/ \E h \in holes : ProviderHeal(h)
    \/ \E force \in BOOLEAN, fails \in FailSets : Backfill(force, fails)
    \/ \E fails \in FailSets : CatchUp(fails)
    \/ \E fails \in FailSets : FillGaps(fails)
    \/ \E r \in Ranges, failed \in BOOLEAN : FetchRange(r[1], r[2], failed)
    \/ \E failed \in BOOLEAN : LendingFetch(failed)

Spec == Init /\ [][Next]_vars

\* ---------------------------------------------------------------- scheduler
\* The scheduler is modelled by its control flow: what run_scheduler does in
\* which order, which executions of the three jobs are in progress, and which
\* catch-ups and gap-fills each execution attempts.  A job execution advances
\* one awaited call at a time, so that timer firings and other executions
\* interleave with it; what an attempted call does to the tables is what
\* CatchUp and FillGaps do.

max_instances == 1            \* add_job(..., max_instances=1)

assets_list == <<"BTC", "ETH">>
futures_assets_list == <<"BTC", "ETH">>
lending_assets_list == <<"WETH", "USDC">>

\* The calls `for asset in list: for metric in metrics: await phase(asset, metric)`
\* makes, in order.
Calls(list, metrics, phase) ==
    [k \in 1..(Len(list) * Len(metrics)) |->
        <<list[((k - 1) \div Len(metrics)) + 1], metrics[((k - 1) % Len(metrics)) + 1], phase>>]

fetch_all_latest == Calls(assets_list, <<"spot">>, "catch_up")
fill_all_gaps == Calls(assets_list, <<"spot">>, "fill_gaps")
fetch_all_assets_latest ==
    Calls(futures_assets_list,
          <<"funding_rate", "mark_klines", "index_klines", "open_interest">>, "catch_up")
fill_all_assets_gaps ==
    Calls(futures_assets_list, <<"funding_rate", "mark_klines", "index_klines">>, "fill_gaps")
fetch_all_new_events == Calls(lending_assets_list, <<"lending">>, "catch_up")

fetch_job == fetch_all_latest \o fill_all_gaps
futures_fetch_job == fetch_all_assets_latest \o fill_all_assets_gaps
lending_fetch_job == fetch_all_new_events

JobCalls(j) ==
    CASE j = "fetch_ohlcv" -> fetch_job
      [] j = "fetch_futures" -> futures_fetch_job
      [] j = "fetch_lending" -> lending_fetch_job

\* Where an execution goes on when its i-th call raises: the except clause
\* around the call logs the error, and the loop goes on with the next call.
spot_on_error_abort(i) == Len(fetch_job) + 1
spot_on_error(i) == i + 1
futures_on_error(i) == i + 1
lending_on_error(i) == i + 1

on_error(j, i) ==
    CASE j = "fetch_ohlcv" -> spot_on_error(i)
      [] j = "fetch_futures" -> futures_on_error(i)
      [] j = "fetch_lending" -> lending_on_error(i)

Awaited(x, j, raises, nxt) ==
    [pos |-> IF nxt > Len(JobCalls(j)) THEN 0 ELSE nxt,
     raised |-> x.raised \/ raises,
     went_on |-> x.raised,
     attempted |-> x.attempted \cup {JobCalls(j)[x.pos]}]

Advance(x, j, raises) == Awaited(x, j, raises, IF raises THEN on_error(j, x.pos) ELSE x.pos + 1)

\* The instances of the job the scheduler has submitted and not seen finish.
Instances(j) == IF exec[<<j, "timer">>].pos > 0 THEN 1 ELSE 0
InProgress(j) == {o \in Origins : exec[<<j, o>>].pos > 0}
Registered(j) == j = "fetch_lending" => lending_fetcher
TotalFired == fired["fetch_ohlcv"] + fired["fetch_futures"] + fired["fetch_lending"]

\* service.initialize(): the lending fetcher may fail to initialise
Initialize(lending_ok) ==
    /\ pc = "initialize"
    /\ lending_fetcher' = lending_ok
    /\ pc' = IF InitialBackfillDays > 0 THEN "spot_backfill" ELSE "start"
    /\ UNCHANGED <<running, exec, fired, skipped>>
    /\ UNCHANGED <<datavars, clientvars, servicevars>>

\* backfill_manager.backfill_all(force=False)
InitialSpotBackfill ==
    /\ pc = "spot_backfill"
    /\ pc' = "futures_backfill"
    /\ UNCHANGED <<lending_fetcher, running, exec, fired, skipped>>
    /\ UNCHANGED <<datavars, clientvars, servicevars>>

\* futures_backfill_manager.backfill_all_assets(force=False)
InitialFuturesBackfill ==
    /\ pc = "futures_backfill"
    /\ pc' = "start"
    /\ UNCHANGED <<lending_fetcher, running, exec, fired, skipped>>
    /\ UNCHANGED <<datavars, clientvars, servicevars>>

\* service.start(), and run_scheduler going on into the immediate fetch_job
\* up to its first awaited call
Start ==
    /\ pc = "start"
    /\ ~running
    /\ running' = TRUE
    /\ pc' = "immediate_spot"
    /\ exec' = [exec EXCEPT ![<<"fetch_ohlcv", "immediate">>] = Entered]
    /\ UNCHANGED <<lending_fetcher, fired, skipped>>
    /\ UNCHANGED <<datavars, clientvars, servicevars>>

\* The interval trigger of a job fires: the scheduler submits the job unless
\* max_instances instances of it are running, and then it skips the run.
TimerFires(j) ==
    /\ running
    /\ Registered(j)
    /\ TotalFired < MaxFirings
    /\ fired' = [fired EXCEPT ![j] = @ + 1]
    /\ IF Instances(j) < max_instances
       THEN /\ exec' = [exec EXCEPT ![<<j, "timer">>] = Entered]
            /\ skipped' = skipped
       ELSE /\ skipped' = [skipped EXCEPT ![j] = @ + 1]
            /\ exec' = exec
    /\ UNCHANGED <<pc, lending_fetcher, running>>
    /\ UNCHANGED <<datavars, clientvars, servicevars>>

\* An execution's awaited call returns or raises.  When the immediate
\* fetch_job ends, run_scheduler goes on into the immediate futures_fetch_job;
\* when that ends, it waits for the shutdown event.
Completes(e, x) ==
    IF e[2] = "immediate" /\ x.pos = 0
    THEN IF e[1] = "fetch_ohlcv"
         THEN /\ pc' = "immediate_futures"
              /\ exec' = [exec EXCEPT ![e] = x, ![<<"fetch_futures", "immediate">>] = Entered]
         ELSE /\ pc' = "wait"
              /\ exec' = [exec EXCEPT ![e] = x]
    ELSE /\ pc' = pc
         /\ exec' = [exec EXCEPT ![e] = x]

JobStep(e, raises) ==
    /\ exec[e].pos > 0
    /\ Completes(e, Advance(exec[e], e[1], raises))
    /\ UNCHANGED <<lending_fetcher, running, fired, skipped>>
    /\ UNCHANGED <<datavars, clientvars, servicevars>>

SchedNext ==
    \/ \E lending_ok \in BOOLEAN : Initialize(lending_ok)
    \/ InitialSpotBackfill
    \/ InitialFuturesBackfill
    \/ Start
    \/ \E j \in Jobs : TimerFires(j)
    \/ \E e \in Executions, raises \in BOOLEAN : JobStep(e, raises)

SchedInit == Init /\ stream = <<"BTC", "spot">> /\ holes = {}

SchedSpec == SchedInit /\ [][SchedNext]_vars

\* --------------------------------------------- provider clients: requests
World(tk, lim, st) == [task |-> tk, limiter |-> lim, started |-> st]

\* The HTTP call is made: acquire() has set last_request_time, and the
\* coroutine is suspended in client.get / client.post / run_query.
Sent(w, t) ==
    LET c == w.task[t].client
    IN  World([w.task EXCEPT ![t].pc = "http", ![t].timer = 0, ![t].attempts = @ + 1],
              [w.limiter EXCEPT ![c].elapsed = 0],
              [w.started EXCEPT ![c] = Append(@, 0)])

\* RateLimiter.acquire from `async with self.lock` on, the lock being free:
\* sleep out the rest of the delay under the lock, or go on at once.
lock_acquired(w, t) ==
    LET c == w.task[t].client
        wait_time == request_delay(c) - w.limiter[c].elapsed
    IN  IF wait_time > 0
        THEN World([w.task EXCEPT ![t].pc = "delay", ![t].timer = wait_time],
                   [w.limiter EXCEPT ![c].locked = TRUE], w.started)
        ELSE Sent(w, t)

\* RateLimiter.acquire after semaphore.acquire() returned
semaphore_acquired(w, t) ==
    LET c == w.task[t].client
        held == World([w.task EXCEPT ![t].permit = TRUE],
                      [w.limiter EXCEPT ![c].value = @ - 1], w.started)
    IN  IF w.limiter[c].locked
        THEN World([held.task EXCEPT ![t].pc = "lock"], held.limiter, held.started)
        ELSE lock_acquired(held, t)

\* semaphore.acquire() returns without waiting
unlimited(value) == TRUE
may_acquire(value) == value > 0

\* RateLimiter.acquire
acquire(w, t) ==
    LET c == w.task[t].client
    IN  IF may_acquire(w.limiter[c].value)
        THEN semaphore_acquired(w, t)
        ELSE World([w.task EXCEPT ![t].pc = "semaphore"], w.limiter, w.started)

\* DuneClient._rate_limit
_rate_limit(w, t) ==
    LET c == w.task[t].client
        sleep_time == request_delay(c) - w.limiter[c].elapsed
    IN  IF sleep_time > 0
        THEN World([w.task EXCEPT ![t].pc = "delay", ![t].timer = sleep_time],
                   w.limiter, w.started)
        ELSE Sent(w, t)

\* RateLimiter.release
release(w, t) ==
    LET c == w.task[t].client
    IN  IF w.task[t].permit
        THEN World([w.task EXCEPT ![t].permit = FALSE],
                   [w.limiter EXCEPT ![c].value = @ + 1], w.started)
        ELSE w

\* The body of the retry loop up to its first suspension
begin_attempt(w, t) ==
    IF has_rate_limiter(w.task[t].client) THEN acquire(w, t) ELSE _rate_limit(w, t)

\* for attempt in range(max_retries)
unbounded_range(attempt) == TRUE
in_range(attempt) == attempt < max_retries

\* The exception leaves the request: raise last_exception
raise_last_exception(w, t) == World([w.task EXCEPT ![t].pc = "failed", ![t].timer = 0], w.limiter, w.started)

\* continue: the next iteration of the loop, or the end of the loop
continue(w, t) ==
    IF in_range(w.task[t].attempt + 1)
    THEN begin_attempt(World([w.task EXCEPT ![t].attempt = @ + 1], w.limiter, w.started), t)
    ELSE raise_last_exception(w, t)

\* What the except clauses do with a response: sleep (ticks) and go on with
\* the loop, or leave the loop.
Sleep(d) == [go |-> "continue", sleep |-> d]
Break == [go |-> "break", sleep |-> 0]
Return == [go |-> "return", sleep |-> 0]

backoff(attempt) == (2 ^ attempt) * Second
dune_backoff(attempt) == 5 * (2 ^ attempt) * Second

_request_with_retry(attempt, resp, retry_after) ==
    CASE resp = "ok" -> Return
      [] resp = "429" -> Sleep(retry_after * Second)
      [] resp = "5xx" -> IF attempt < max_retries - 1 THEN Sleep(backoff(attempt)) ELSE Break
      [] resp = "4xx" -> Break
      [] resp = "network" -> IF attempt < max_retries - 1 THEN Sleep(backoff(attempt)) ELSE Break

_execute_query(attempt, resp, retry_after) ==
    CASE resp = "ok" -> Return
      [] resp = "429" -> Sleep(retry_after * Second)
      [] resp = "5xx" -> Sleep(backoff(attempt))
      [] resp = "4xx" -> Break
      [] resp = "network" -> IF attempt < max_retries - 1 THEN Sleep(backoff(attempt)) ELSE Break

dune_get_lending_data(attempt, resp, retry_after) ==
    CASE resp = "ok" -> Return
      [] OTHER -> IF attempt < max_retries - 1 THEN Sleep(dune_backoff(attempt)) ELSE Break

on_response(c, attempt, resp, retry_after) ==
    CASE c = "binance" -> _request_with_retry(attempt, resp, retry_after)
      [] c = "aave" -> _execute_query(attempt, resp, retry_after)
      [] c = "dune" -> dune_get_lending_data(attempt, resp, retry_after)

RECURSIVE ErrorsUpTo(_)
ErrorsUpTo(n) == IF n = 0 THEN 0 ELSE task[n].errors + ErrorsUpTo(n - 1)
TotalErrors == ErrorsUpTo(MaxTasks)
Cancelled == {t \in ClientTasks : task[t].pc = "cancelled"}
InFlight(c) == {t \in ClientTasks : task[t].client = c /\ task[t].pc = "http"}
TheWorld == World(task, limiter, started)

Becomes(w) ==
    /\ task' = w.task
    /\ limiter' = w.limiter
    /\ started' = w.started

\* A task calls the client.  The tasks of a behaviour call the same client:
\* each client owns its limiter, and the clients share no state.
StartRequest(t, c) ==
    /\ task[t].pc = "idle"
    /\ \A u \in ClientTasks : u < t => task[u].pc # "idle"
    /\ \A u \in ClientTasks : task[u].client \in {"none", c}
    /\ Becomes(begin_attempt(World([task EXCEPT ![t].client = c], limiter, started), t))
    /\ UNCHANGED pause
    /\ UNCHANGED <<datavars, schedvars, servicevars>>

\* A permit is free: semaphore.acquire() of a waiting task returns
SemaphoreWakes(t) ==
    /\ task[t].pc = "semaphore"
    /\ limiter[task[t].client].value > 0
    /\ Becomes(semaphore_acquired(TheWorld, t))
    /\ UNCHANGED pause
    /\ UNCHANGED <<datavars, schedvars, servicevars>>

\* The lock is free: a task waiting in `async with self.lock` enters
LockWakes(t) ==
    /\ task[t].pc = "lock"
    /\ ~limiter[task[t].client].locked
    /\ Becomes(lock_acquired(TheWorld, t))
    /\ UNCHANGED pause
    /\ UNCHANGED <<datavars, schedvars, servicevars>>

\* The sleep of the minimum delay ends: last_request_time is set, the lock
\* is released and the HTTP call made
DelayEnds(t) ==
    /\ task[t].pc = "delay"
    /\ task[t].timer = 0
    /\ Becomes(Sent(World(task,
                          IF has_rate_limiter(task[t].client)
                          THEN [limiter EXCEPT ![task[t].client].locked = FALSE]
                          ELSE limiter,
                          started), t))
    /\ UNCHANGED pause
    /\ UNCHANGED <<datavars, schedvars, servicevars>>

\* The provider answers, or the connection fails
Responds(t, resp, retry_after) ==
    LET c == task[t].client
        todo == on_response(c, task[t].attempt, resp, retry_after)
        w == World([task EXCEPT ![t].resp = resp,
                                ![t].errors = IF resp = "ok" THEN @ ELSE @ + 1],
                   limiter, started)
    IN  /\ task[t].pc = "http"
        /\ resp # "ok" => TotalErrors < MaxErrors
        /\ CASE todo.go = "return" ->
                  Becomes(release(World([w.task EXCEPT ![t].pc = "returned"],
                                        w.limiter, w.started), t))
             [] todo.go = "break" -> Becomes(release(raise_last_exception(w, t), t))
             [] todo.go = "continue" ->
                  Becomes(World([w.task EXCEPT ![t].pc = "backoff", ![t].timer = todo.sleep],
                                w.limiter, w.started))
        /\ pause' = IF resp = "429" /\ pause[c] < retry_after * Second
                    THEN [pause EXCEPT ![c] = retry_after * Second]
                    ELSE pause
        /\ UNCHANGED <<datavars, schedvars, servicevars>>

\* The sleep in the except clause ends: finally releases the permit, and the
\* loop goes on
BackoffEnds(t) ==
    /\ task[t].pc = "backoff"
    /\ task[t].timer = 0
    /\ Becomes(continue(release(TheWorld, t), t))
    /\ UNCHANGED pause
    /\ UNCHANGED <<datavars, schedvars, servicevars>>

\* The task is cancelled while suspended: CancelledError is raised at the
\* await.  Inside the try of the loop the finally clause releases the permit;
\* acquire() is awaited before the try.
Cancel(t) ==
    LET c == task[t].client
        gone == [task EXCEPT ![t].pc = "cancelled", ![t].timer = 0]
    IN  /\ task[t].pc \in {"semaphore", "lock", "delay", "http", "backoff"}
        /\ Cardinality(Cancelled) < MaxCancels
        /\ CASE task[t].pc \in {"http", "backoff"} ->
                  Becomes(release(World(gone, limiter, started), t))
             [] task[t].pc = "delay" /\ has_rate_limiter(c) ->
                  Becomes(World(gone, [limiter EXCEPT ![c].locked = FALSE], started))
             [] OTHER -> Becomes(World(gone, limiter, started))
        /\ UNCHANGED pause
        /\ UNCHANGED <<datavars, schedvars, servicevars>>

Aged(ages) == SelectSeq([i \in 1..Len(ages) |-> ages[i] + 1], LAMBDA a : a < Minute)
Sleeping == {t \in ClientTasks : task[t].timer > 0}

\* One tick of time passes
ClockTick ==
    /\ Sleeping # {} \/ \E c \in Clients : pause[c] > 0 \/ started[c] # <<>>
    /\ task' = [t \in ClientTasks |->
                   [task[t] EXCEPT !.timer = IF @ > 0 THEN @ - 1 ELSE 0]]
    /\ limiter' = [c \in Clients |->
                      [limiter[c] EXCEPT !.elapsed = IF @ < request_delay(c) THEN @ + 1 ELSE @]]
    /\ pause' = [c \in Clients |-> IF pause[c] > 0 THEN pause[c] - 1 ELSE 0]
    /\ started' = [c \in Clients |-> Aged(started[c])]
    /\ UNCHANGED <<datavars, schedvars, servicevars>>

ClientNext ==
    \/ \E t \in ClientTasks, c \in Clients : StartRequest(t, c)
    \/ \E t \in ClientTasks : SemaphoreWakes(t)
    \/ \E t \in ClientTasks : LockWakes(t)
    \/ \E t \in ClientTasks : DelayEnds(t)
    \/ \E t \in ClientTasks, resp \in Responses \ {"429"} : Responds(t, resp, 0)
    \/ \E t \in ClientTasks, retry_after \in RetryAfters : Responds(t, "429", retry_after)
    \/ \E t \in ClientTasks : BackoffEnds(t)
    \/ \E t \in ClientTasks : Cancel(t)
    \/ ClockTick

ClientInit == Init /\ stream = <<"BTC", "spot">> /\ holes = {}

ClientSpec == ClientInit /\ [][ClientNext]_vars

\* ------------------------------------------------------- alignment layer
\* A DataFrame is a function from the timestamps of its rows to the record of
\* the other columns; a dict of DataFrames is a function on the assets it
\* has.  A storage read that raised is [raised |-> TRUE], and one that
\* returned is [raised |-> FALSE, rows |-> the records by timestamp].
AnalysisAssets == {"BTC", "WETH"}
ReadKinds == {"spot", "mark", "funding", "lending"}

NoRows == <<>>
Raise == [raised |-> TRUE, rows |-> NoRows]
Rows(rows) == [raised |-> FALSE, rows |-> rows]

\* the histories the tables hold in an analysis request: the days with rows
PanelDaySet == 0..(PanelDays - 1)
LookbackWindow == PanelDays
SpotHistories == {h \in SUBSET PanelDaySet : 1 \notin h \/ h = PanelDaySet}
MarkHistories == {{}, {1}, PanelDaySet \ {1}}
FundingHistories == {{}, {0}}
LendingHistories == {{}, {PanelDays - 1}}

\* The value the provider quoted at an instant.
Level(ts) == 1 + ts \div Hours(4)

rate_cols == {"supply_rate_ray", "variable_borrow_rate_ray", "stable_borrow_rate_ray"}
index_cols == {"liquidity_index", "variable_borrow_index"}
optional_cols == rate_cols \cup index_cols

\* What the tables hold for the days of a history: two candles a day, three
\* mark candles and funding rates a day, one lending snapshot a day.
StoredAt(days, hours) == {Days(d) + Hours(h) : d \in days, h \in hours}
get_ohlcv_data(days) ==
    Rows([ts \in StoredAt(days, {0, SpotIntervalHours}) |-> [close |-> Level(ts)]])
get_mark_klines(days) ==
    Rows([ts \in StoredAt(days, {0, KlinesIntervalHours, 2 * KlinesIntervalHours}) |->
            [close |-> Level(ts)]])
get_funding_rates(days) ==
    Rows([ts \in StoredAt(days, {0, FundingIntervalHours, 2 * FundingIntervalHours}) |->
            [funding_rate |-> Level(ts)]])
\* the rate columns of the lendings table, with or without the index columns
database_get_lending_data(days, cols) ==
    Rows([ts \in StoredAt(days, {0}) |-> [c \in cols |-> Level(ts)]])

SpotReads == {Raise} \cup {get_ohlcv_data(h) : h \in SpotHistories}
MarkReads == {Raise} \cup {get_mark_klines(h) : h \in MarkHistories}
FundingReads == {Raise} \cup {get_funding_rates(h) : h \in FundingHistories}
LendingReads ==
    {Raise, Rows(NoRows)} \cup
    {database_get_lending_data(h, cols) : h \in LendingHistories \ {{}},
                                          cols \in {rate_cols, optional_cols}}

\* pd.to_numeric(errors='coerce'), fillna, dropna on one column
to_numeric(v) == IF v = None THEN NaN ELSE v
fillna(v, d) == IF v = NaN THEN d ELSE v
dropna(df, col) == [ts \in {t \in DOMAIN df : df[t][col] # NaN} |-> df[ts]]

\* asyncio.gather(*tasks, return_exceptions=...): the results in order, the
\* exceptions among them, or the first exception raised to the caller.
gather_raising(results) ==
    [raised |-> \E x \in DOMAIN results : results[x].raised, results |-> results]
gather(results) == [raised |-> FALSE, results |-> results]

spot_frame(result) ==
    dropna([ts \in DOMAIN result.rows |-> [close |-> to_numeric(result.rows[ts].close)]],
           "close")

futures_frame(mark_result, funding_result) ==
    LET mark_df == dropna([ts \in DOMAIN mark_result.rows |->
                             [close |-> to_numeric(mark_result.rows[ts].close)]], "close")
        funding == funding_result.rows
    IN  [ts \in DOMAIN mark_df |->
            [mark_price |-> mark_df[ts].close,
             funding_rate |->
                IF DOMAIN funding # {} /\ ts \in DOMAIN funding
                THEN fillna(to_numeric(funding[ts].funding_rate), 0)
                ELSE 0]]

lending_frame(result) ==
    [ts \in DOMAIN result.rows |->
        [c \in optional_cols \cap DOMAIN result.rows[ts] |->
            fillna(to_numeric(result.rows[ts][c]), 0)]]

days_available(df) == (Max(DOMAIN df) - Min(DOMAIN df)) \div Days(1)

RECURSIVE min_days(_, _, _)
min_days(spot_data_dict, todo, acc) ==
    IF todo = {} THEN acc
    ELSE LET a == CHOOSE x \in todo : TRUE
             d == IF DOMAIN spot_data_dict[a] = {} THEN acc
                  ELSE days_available(spot_data_dict[a])
         IN  min_days(spot_data_dict, todo \ {a}, IF d < acc THEN d ELSE acc)

fetch_portfolio_data(assets, lookback_days, reads) ==
    LET g == gather(reads)
        r == g.results
        spot == {a \in assets : ~r[<<a, "spot">>].raised /\ DOMAIN r[<<a, "spot">>].rows # {}}
        futures == {a \in assets : /\ ~r[<<a, "mark">>].raised
                                   /\ ~r[<<a, "funding">>].raised
                                   /\ DOMAIN r[<<a, "mark">>].rows # {}}
        lending == {a \in assets : /\ ~r[<<a, "lending">>].raised
                                   /\ DOMAIN r[<<a, "lending">>].rows # {}}
        spot_data_dict == [a \in spot |-> spot_frame(r[<<a, "spot">>])]
    IN  [raised |-> g.raised,
         spot |-> spot_data_dict,
         futures |-> [a \in futures |-> futures_frame(r[<<a, "mark">>], r[<<a, "funding">>])],
         lending |-> [a \in lending |-> lending_frame(r[<<a, "lending">>])],
         actual_days |-> min_days(spot_data_dict, spot, lookback_days)]

\* df.resample("D"): the rows of each calendar day, labelled by its midnight
DayOf(ts) == (ts \div Days(1)) * Days(1)
DaysOf(df) == {DayOf(ts) : ts \in DOMAIN df}
InDay(df, day) == {ts \in DOMAIN df : DayOf(ts) = day}
resample_last(df, col, day) == df[Max(InDay(df, day))][col]

RECURSIVE Sum(_, _, _)
Sum(df, col, todo) ==
    IF todo = {} THEN 0
    ELSE LET ts == CHOOSE x \in todo : TRUE IN df[ts][col] + Sum(df, col, todo \ {ts})
\* the mean of the day, rounded down to the unit of the quotes
resample_mean(df, col, day) ==
    Sum(df, col, InDay(df, day)) \div Cardinality(InDay(df, day))

NonEmpty(dict) == {a \in DOMAIN dict : DOMAIN dict[a] # {}}

resample_to_daily(spot_data, futures_data, lending_data) ==
    [spot |-> [a \in NonEmpty(spot_data) |->
                 [day \in DaysOf(spot_data[a]) |->
                     [close |-> resample_last(spot_data[a], "close", day)]]],
     futures |-> [a \in NonEmpty(futures_data) |->
                    [day \in DaysOf(futures_data[a]) |->
                        [mark_price |-> resample_last(futures_data[a], "mark_price", day),
                         funding_rate |-> resample_mean(futures_data[a], "funding_rate", day)]]],
     lending |-> [a \in NonEmpty(lending_data) |->
                    [day \in DaysOf(lending_data[a]) |->
                        [c \in DOMAIN lending_data[a][Min(DOMAIN lending_data[a])] |->
                            resample_last(lending_data[a], c, day)]]]]

\* pd.date_range(start, end, freq="D"), a left merge on "timestamp", ffill,
\* bfill and isna over one column of the panel
date_range(min_ts, max_ts) == {min_ts + Days(i) : i \in 0..((max_ts - min_ts) \div Days(1))}
merge_left(range, df, col) == [d \in range |-> IF d \in DOMAIN df THEN df[d][col] ELSE NaN]
ffill(column) ==
    [d \in DOMAIN column |->
        LET src == {p \in DOMAIN column : p <= d /\ column[p] # NaN}
        IN  IF src = {} THEN NaN ELSE column[Max(src)]]
bfill(column) ==
    [d \in DOMAIN column |->
        LET src == {p \in DOMAIN column : p >= d /\ column[p] # NaN}
        IN  IF src = {} THEN NaN ELSE column[Min(src)]]
na_count(column) == Cardinality({d \in DOMAIN column : column[d] = NaN})

\* a price or index column: forward fill, then backward fill of what is left
no_bfill(column) == column
fill_start_gaps(column) == bfill(column)
filled_price(range, df, col) ==
    LET filled == ffill(merge_left(range, df, col))
    IN  IF na_count(filled) > 0 THEN fill_start_gaps(filled) ELSE filled
\* a rate column: forward fill, then 0 for what is left
filled_rate(range, df, col) ==
    LET filled == ffill(merge_left(range, df, col))
    IN  [d \in range |-> fillna(filled[d], 0)]
unfilled(range, df, col) == na_count(ffill(merge_left(range, df, col)))

\* the panel column a column of a lending frame becomes
lending_column(col) ==
    CASE col = "supply_rate_ray" -> "supply_rate"
      [] col = "variable_borrow_rate_ray" -> "variable_borrow_rate"
      [] col = "stable_borrow_rate_ray" -> "stable_borrow_rate"
      [] OTHER -> col
lending_source(name) ==
    CASE name = "supply_rate" -> "supply_rate_ray"
      [] name = "variable_borrow_rate" -> "variable_borrow_rate_ray"
      [] name = "stable_borrow_rate" -> "stable_borrow_rate_ray"
      [] OTHER -> name
frame_columns(df) == DOMAIN df[Min(DOMAIN df)]

spot_columns(range, spot_data) ==
    [n \in {<<a, "spot">> : a \in DOMAIN spot_data} |->
        filled_price(range, spot_data[n[1]], "close")]
futures_columns(range, futures_data) ==
    [n \in {<<a, c>> : a \in DOMAIN futures_data, c \in {"futures_mark", "funding"}} |->
        IF n[2] = "futures_mark"
        THEN filled_price(range, futures_data[n[1]], "mark_price")
        ELSE filled_rate(range, futures_data[n[1]], "funding_rate")]
lending_columns(range, lending_data) ==
    [n \in UNION {{<<a, lending_column(c)>> : c \in frame_columns(lending_data[a])} :
                    a \in DOMAIN lending_data} |->
        IF n[2] \in index_cols
        THEN filled_price(range, lending_data[n[1]], n[2])
        ELSE filled_rate(range, lending_data[n[1]], lending_source(n[2]))]

\* the warnings: the column and the count of the values no forward fill reached
gap_warnings(range, spot_data, futures_data, lending_data) ==
    {w \in {[column |-> <<a, "spot">>, na_count |-> unfilled(range, spot_data[a], "close")] :
                a \in DOMAIN spot_data}
           \cup {[column |-> <<a, "futures_mark">>,
                  na_count |-> unfilled(range, futures_data[a], "mark_price")] :
                    a \in DOMAIN futures_data}
           \cup {[column |-> <<a, "funding">>,
                  na_count |-> unfilled(range, futures_data[a], "funding_rate")] :
                    a \in DOMAIN futures_data}
           \cup UNION {{[column |-> <<a, c>>, na_count |-> unfilled(range, lending_data[a], c)] :
                            c \in index_cols \cap frame_columns(lending_data[a])} :
                        a \in DOMAIN lending_data} :
        w.na_count > 0}

all_timestamps(spot_data, futures_data, lending_data) ==
    UNION ({DOMAIN spot_data[a] : a \in DOMAIN spot_data}
           \cup {DOMAIN futures_data[a] : a \in DOMAIN futures_data}
           \cup {DOMAIN lending_data[a] : a \in DOMAIN lending_data})

aligned_panel(range, spot_data, futures_data, lending_data) ==
    [raised |-> FALSE,
     timestamp |-> range,
     columns |-> spot_columns(range, spot_data) @@ futures_columns(range, futures_data)
                    @@ lending_columns(range, lending_data),
     warnings |-> gap_warnings(range, spot_data, futures_data, lending_data)]

align_time_series(spot_data, futures_data, lending_data) ==
    IF all_timestamps(spot_data, futures_data, lending_data) = {}
    THEN [raised |-> TRUE, timestamp |-> {}, columns |-> <<>>, warnings |-> {}]
    ELSE aligned_panel(date_range(Min(all_timestamps(spot_data, futures_data, lending_data)),
                                  Max(all_timestamps(spot_data, futures_data, lending_data))),
                       spot_data, futures_data, lending_data)

\* ---- the alignment layer as calculate_risk_profile runs it
\* the reads fetch_portfolio_data gathers: one of each kind for each asset
Reads(as, spot, mark, funding, lending) ==
    [x \in as \X ReadKinds |->
        CASE x[2] = "spot" -> spot[x[1]]
          [] x[2] = "mark" -> mark[x[1]]
          [] x[2] = "funding" -> funding[x[1]]
          [] x[2] = "lending" -> lending[x[1]]]

FetchPortfolioData(as, reads) ==
    /\ align_pc = "idle"
    /\ req_assets' = as
    /\ gathered' = reads
    /\ frames' = fetch_portfolio_data(as, LookbackWindow, reads)
    /\ align_pc' = IF frames'.raised THEN "raised" ELSE "fetched"
    /\ UNCHANGED panel
    /\ UNCHANGED <<datavars, schedvars, clientvars, apivars, chatvars, indexvars>>

ResampleToDaily ==
    /\ align_pc = "fetched"
    /\ frames' = [raised |-> FALSE, actual_days |-> frames.actual_days]
                    @@ resample_to_daily(frames.spot, frames.futures, frames.lending)
    /\ align_pc' = "resampled"
    /\ UNCHANGED <<req_assets, gathered, panel>>
    /\ UNCHANGED <<datavars, schedvars, clientvars, apivars, chatvars, indexvars>>

AlignTimeSeries ==
    /\ align_pc = "resampled"
    /\ panel' = align_time_series(frames.spot, frames.futures, frames.lending)
    /\ align_pc' = IF panel'.raised THEN "raised" ELSE "aligned"
    /\ UNCHANGED <<req_assets, gathered, frames>>
    /\ UNCHANGED <<datavars, schedvars, clientvars, apivars, chatvars, indexvars>>

AlignNext ==
    \/ /\ align_pc = "idle"
       /\ \E as \in SUBSET AnalysisAssets \ {{}} :
        \E spot \in [as -> SpotReads], mark \in [as -> MarkReads],
           funding \in [as -> FundingReads], lending \in [as -> LendingReads] :
            FetchPortfolioData(as, Reads(as, spot, mark, funding, lending))
    \/ ResampleToDaily
    \/ AlignTimeSeries

AlignInit == Init /\ stream = <<"BTC", "spot">> /\ holes = {}

AlignSpec == AlignInit /\ [][AlignNext]_vars

\* ------------------------------------------------------------ analysis API
\* A response is the request it answers, the HTTP status and the body.
\* Prices and values are whole USD, quantities whole units, shocks whole
\* percents, and the ratios of the lending metrics basis points, rounded down.
HTTP_200_OK == 200
HTTP_400_BAD_REQUEST == 400
HTTP_404_NOT_FOUND == 404
HTTP_422_UNPROCESSABLE_ENTITY == 422
NoBody == <<>>

\* ---- GET /aggregated-stats/{asset} and /aggregated-stats/multi
max_period_days == 90
StatsInstants == {Days(d) + Hours(h) : d \in {0, max_period_days, StatsDays}, h \in {0, 12}}
StatsAssets == {"BTC", "DOGE"}
AssetLists == {{}, {"BTC"}, {"BTC", "ETH"}, {"BTC", "DOGE"}}

\* (end - start).days
period_days(start, end) == (end - start) \div Days(1)

validate_date_range(start, end) ==
    IF period_days(start, end) > max_period_days THEN HTTP_400_BAD_REQUEST
    ELSE IF period_days(start, end) < 0 THEN HTTP_400_BAD_REQUEST
    ELSE HTTP_200_OK

get_aggregated_stats_single(asset, start, end) ==
    IF asset \notin SpotAssets THEN HTTP_404_NOT_FOUND
    ELSE validate_date_range(start, end)

get_aggregated_stats_multi(asset_list, start, end) ==
    IF Cardinality(asset_list) > 10 \/ asset_list = {} THEN HTTP_400_BAD_REQUEST
    ELSE IF asset_list \ SpotAssets # {} THEN HTTP_404_NOT_FOUND
    ELSE validate_date_range(start, end)

StatsResponse(endpoint, as, start, end, status) ==
    [endpoint |-> endpoint, assets |-> as, start |-> start, end |-> end,
     status |-> status, positions |-> <<>>, lookback_days |-> 0, coverage |-> 0,
     body |-> NoBody]

GetAggregatedStatsSingle(asset, start, end) ==
    /\ response' = StatsResponse("stats_single", {asset}, start, end,
                                 get_aggregated_stats_single(asset, start, end))
    /\ UNCHANGED <<datavars, schedvars, clientvars, alignvars, chatvars, indexvars>>

GetAggregatedStatsMulti(asset_list, start, end) ==
    /\ response' = StatsResponse("stats_multi", asset_list, start, end,
                                 get_aggregated_stats_multi(asset_list, start, end))
    /\ UNCHANGED <<datavars, schedvars, clientvars, alignvars, chatvars, indexvars>>

\* ---- POST /analysis/risk-profile
Today == Days(MaxLookback + 2) + Hours(15)        \* datetime.utcnow()
Quote(asset) ==
    CASE asset = "BTC" -> 50000
      [] asset = "ETH" -> 3000
      [] asset = "WETH" -> 2000
      [] OTHER -> 1
IndexAt(ts) == 1000 + ts \div Days(1)              \* an index that grows by the day
PricedAssets == SpotAssets \cup {"WETH"}

\* the instants of a table's grid between two instants
Grid(step, start, end) == {k * step : k \in ((start + step - 1) \div step)..(end \div step)}

\* What the tables return for an asset: spot and lending rows are stored for
\* every day, futures rows for the latest `coverage` days.
StoredReads(as, start, end, coverage) ==
    [x \in as \X ReadKinds |->
        CASE x[2] = "spot" ->
                Rows([ts \in (IF x[1] \in PricedAssets THEN Grid(Hours(SpotIntervalHours), start, end)
                              ELSE {}) |-> [close |-> Quote(x[1])]])
          [] x[2] = "mark" ->
                Rows([ts \in (IF x[1] \in FuturesAssets
                              THEN Grid(Hours(KlinesIntervalHours),
                                        Max({start, Today - Days(coverage)}), end)
                              ELSE {}) |-> [close |-> Quote(x[1])]])
          [] x[2] = "funding" ->
                Rows([ts \in (IF x[1] \in FuturesAssets
                              THEN Grid(Hours(FundingIntervalHours),
                                        Max({start, Today - Days(coverage)}), end)
                              ELSE {}) |-> [funding_rate |-> 1]])
          [] x[2] = "lending" ->
                Rows([ts \in (IF x[1] \in LendingAssets THEN Grid(Days(1), start, end) ELSE {}) |->
                        [c \in optional_cols |-> IndexAt(ts)]])]

\* positions of a request
Pos(asset, quantity, position_type, entry_price, leverage, entry_index) ==
    [asset |-> asset, quantity |-> quantity, position_type |-> position_type,
     entry_price |-> entry_price, leverage |-> leverage, entry_index |-> entry_index,
     entry_timestamp |-> Today - Days(1), borrow_type |-> "variable"]
lending_types == {"lending_supply", "lending_borrow"}
valid_types == {"spot", "futures_long", "futures_short"} \cup lending_types

RECURSIVE SeqSum(_)
SeqSum(seq) == IF seq = <<>> THEN 0 ELSE Head(seq) + SeqSum(Tail(seq))
Select(seq, type) == SelectSeq(seq, LAMBDA p : p.position_type = type)

\* pydantic: RiskProfileRequest and PositionInput
request_valid(positions, lookback_days) ==
    /\ Len(positions) >= 1 /\ Len(positions) <= 20
    /\ lookback_days >= 7 /\ lookback_days <= 180
    /\ \A i \in DOMAIN positions :
          /\ positions[i].quantity > 0
          /\ positions[i].position_type \in valid_types
          /\ positions[i].entry_price >= 0
          /\ positions[i].leverage > 0 /\ positions[i].leverage <= 125

\* _validate_positions: TRUE when it raises no ValueError
positions_valid(positions) ==
    /\ Len(positions) >= 1 /\ Len(positions) <= 20
    /\ \A i \in DOMAIN positions :
          /\ positions[i].position_type \in valid_types
          /\ positions[i].position_type \notin lending_types => positions[i].entry_price > 0
          /\ positions[i].quantity > 0
          /\ positions[i].leverage > 0 /\ positions[i].leverage <= 125

\* dict.get(key, default); the keys of a dict are tuples: <<"BTC">> is the
\* string key "BTC" and <<"BTC", "spot">> the tuple key ("BTC", "spot")
Get(dict, key, default) == IF key \in DOMAIN dict THEN dict[key] ELSE default

Assets(positions) == {positions[i].asset : i \in DOMAIN positions}
has_lending(positions) == \E i \in DOMAIN positions : positions[i].position_type \in lending_types
has_futures(positions) ==
    \E i \in DOMAIN positions : positions[i].position_type \in {"futures_long", "futures_short"}

price_column(position) ==
    <<position.asset, IF position.position_type = "spot" THEN "spot" ELSE "futures_mark">>
index_column(position) ==
    <<position.asset, IF position.position_type = "lending_supply" THEN "liquidity_index"
                      ELSE "variable_borrow_index">>

\* _lookup_entry_index: the index of the row closest to the entry, the
\* earliest row when the entry predates the panel
lookup_entry_index(column, entry_timestamp) ==
    IF entry_timestamp < Min(DOMAIN column) THEN column[Min(DOMAIN column)]
    ELSE column[Min({d \in DOMAIN column :
                        \A e \in DOMAIN column :
                            Max({d - entry_timestamp, entry_timestamp - d})
                                <= Max({e - entry_timestamp, entry_timestamp - e})})]

with_entry_index(positions, columns) ==
    [i \in DOMAIN positions |->
        IF positions[i].position_type \in lending_types /\ positions[i].entry_index = None
        THEN [positions[i] EXCEPT !.entry_index =
                lookup_entry_index(columns[index_column(positions[i])],
                                   positions[i].entry_timestamp)]
        ELSE positions[i]]

\* _extract_current_prices, keyed by (asset, position_type)
extract_current_prices(columns, latest, positions) ==
    [k \in {<<positions[i].asset, positions[i].position_type>> :
                i \in {j \in DOMAIN positions : positions[j].position_type \notin lending_types}} |->
        columns[<<k[1], IF k[2] = "spot" THEN "spot" ELSE "futures_mark">>][latest]]

\* _extract_current_indices: None stands for an index the dict does not have
extract_current_indices(columns, latest, positions) ==
    [a \in {positions[i].asset :
                i \in {j \in DOMAIN positions : positions[j].position_type \in lending_types}} |->
        [c \in index_cols |-> IF <<a, c>> \in DOMAIN columns THEN columns[<<a, c>>][latest] ELSE None]]

current_price(position, current_prices) ==
    Get(current_prices, <<position.asset, position.position_type>>,
        Get(current_prices, <<position.asset>>, None))
current_index(position, current_indices) ==
    IF position.asset \in DOMAIN current_indices
    THEN current_indices[position.asset][index_column(position)[2]]
    ELSE None

\* calculate_position_value raises ValueError
value_raises(position, current_prices, current_indices) ==
    IF position.position_type \in lending_types
    THEN \/ position.entry_index = None
         \/ current_index(position, current_indices) = None
         \/ position.entry_index <= 0
         \/ current_index(position, current_indices) <= 0
    ELSE current_price(position, current_prices) = None

calculate_position_value(position, current_prices, current_indices) ==
    CASE position.position_type = "lending_supply" ->
            (position.quantity * current_index(position, current_indices)) \div position.entry_index
      [] position.position_type = "lending_borrow" ->
            0 - (position.quantity * current_index(position, current_indices))
                    \div position.entry_index
      [] position.position_type = "spot" ->
            position.quantity * current_price(position, current_prices)
      [] position.position_type = "futures_long" ->
            (position.quantity * position.entry_price) \div position.leverage
                + (current_price(position, current_prices) - position.entry_price)
                    * position.quantity
      [] position.position_type = "futures_short" ->
            (position.quantity * position.entry_price) \div position.leverage
                + (position.entry_price - current_price(position, current_prices))
                    * position.quantity

calculate_portfolio_value(positions, current_prices, current_indices) ==
    SeqSum([i \in DOMAIN positions |->
                calculate_position_value(positions[i], current_prices, current_indices)])

apply_price_shock(base_prices, shock_pct) ==
    [k \in DOMAIN base_prices |-> (base_prices[k] * (100 + shock_pct)) \div 100]

SCENARIOS ==
    [bull_market |-> [shock_type |-> "uniform", shock_value |-> 30, shocks |-> <<>>],
     bear_market |-> [shock_type |-> "uniform", shock_value |-> -30, shocks |-> <<>>],
     crypto_winter |-> [shock_type |-> "uniform", shock_value |-> -50, shocks |-> <<>>],
     moderate_rally |-> [shock_type |-> "uniform", shock_value |-> 15, shocks |-> <<>>],
     flash_crash |-> [shock_type |-> "uniform", shock_value |-> -20, shocks |-> <<>>],
     btc_dominance |-> [shock_type |-> "asset_specific", shock_value |-> 0,
                        shocks |-> (<<"BTC">> :> 40 @@ <<"default">> :> -10)],
     alt_season |-> [shock_type |-> "asset_specific", shock_value |-> 0,
                     shocks |-> (<<"BTC">> :> 20 @@ <<"ETH">> :> 50 @@ <<"SOL">> :> 50
                                    @@ <<"default">> :> 35)],
     risk_off |-> [shock_type |-> "asset_specific", shock_value |-> 0,
                   shocks |-> (<<"BTC">> :> -15 @@ <<"default">> :> -35)]]

\* the prices run_scenario values the portfolio at
shocked_prices(base_prices, scenario_def) ==
    IF scenario_def.shock_type = "uniform"
    THEN apply_price_shock(base_prices, scenario_def.shock_value)
    ELSE [asset \in DOMAIN base_prices |->
            (base_prices[asset]
                * (100 + Get(scenario_def.shocks, asset,
                             Get(scenario_def.shocks, <<"default">>, 0)))) \div 100]

\* pnl and return_pct (in hundredths of a percent) against the base value
Result(base_value, value) ==
    [portfolio_value |-> value, pnl |-> value - base_value,
     return_pct |-> IF base_value # 0 THEN ((value - base_value) * 10000) \div base_value ELSE 0]

run_scenario(positions, base_prices, scenario_def, current_indices) ==
    Result(calculate_portfolio_value(positions, base_prices, current_indices),
           IF DOMAIN base_prices # {}
           THEN calculate_portfolio_value(positions, shocked_prices(base_prices, scenario_def),
                                          current_indices)
           ELSE calculate_portfolio_value(positions, base_prices, current_indices))

run_all_scenarios(positions, base_prices, current_indices) ==
    [k \in DOMAIN SCENARIOS |-> run_scenario(positions, base_prices, SCENARIOS[k], current_indices)]

\* calculate_sensitivity_table over settings.SENSITIVITY_RANGE
SENSITIVITY_RANGE == {-30, -25, -20, -15, -10, -5, 0, 5, 10, 15, 20, 25, 30}
calculate_sensitivity_table(positions, base_prices, current_indices) ==
    [shock_pct \in SENSITIVITY_RANGE |->
        Result(calculate_portfolio_value(positions, base_prices, current_indices),
               IF DOMAIN base_prices # {}
               THEN calculate_portfolio_value(positions,
                                              apply_price_shock(base_prices, shock_pct),
                                              current_indices)
               ELSE calculate_portfolio_value(positions, base_prices, current_indices))]

calculate_delta_exposure(positions) ==
    SeqSum([i \in DOMAIN positions |->
                CASE positions[i].position_type \in {"spot", "futures_long"} ->
                        positions[i].quantity
                  [] positions[i].position_type = "futures_short" -> 0 - positions[i].quantity
                  [] OTHER -> 0])

\* settings.AAVE_LIQUIDATION_THRESHOLDS and settings.AAVE_MAX_LTV, basis points
inf == 2147483647
AAVE_LIQUIDATION_THRESHOLDS ==
    "WETH" :> 8250 @@ "WBTC" :> 7500 @@ "USDC" :> 8700 @@ "USDT" :> 8700 @@ "DAI" :> 8000
AAVE_MAX_LTV ==
    "WETH" :> 8000 @@ "WBTC" :> 7000 @@ "USDC" :> 8500 @@ "USDT" :> 8500 @@ "DAI" :> 7500

calculate_account_ltv(total_borrowed, total_collateral) ==
    IF total_collateral <= 0 THEN 0 ELSE (total_borrowed * 10000) \div total_collateral

\* positions carry their value; weighted by the liquidation threshold
calculate_health_factor(supply_positions, total_borrowed, liquidation_thresholds) ==
    IF total_borrowed <= 0 THEN inf
    ELSE IF SeqSum([i \in DOMAIN supply_positions |->
                        supply_positions[i].value
                            * Get(liquidation_thresholds, supply_positions[i].asset, 5000)]) <= 0
         THEN 0
         ELSE SeqSum([i \in DOMAIN supply_positions |->
                        supply_positions[i].value
                            * Get(liquidation_thresholds, supply_positions[i].asset, 5000)])
                \div total_borrowed

Abs(x) == IF x < 0 THEN 0 - x ELSE x
Values(positions) == [i \in DOMAIN positions |-> positions[i].value]
AbsValues(positions) == [i \in DOMAIN positions |-> Abs(positions[i].value)]

\* total_collateral_value * weighted_max_ltv - total_debt_value, where the
\* weights are value / total_collateral_value
max_safe_borrow(supply_positions, total_collateral_value, total_debt_value) ==
    (IF total_collateral_value > 0
     THEN SeqSum([i \in DOMAIN supply_positions |->
                    supply_positions[i].value
                        * Get(AAVE_MAX_LTV, supply_positions[i].asset, 7500)]) \div 10000
     ELSE 0) - total_debt_value

\* _calculate_lending_metrics on positions that carry their value
calculate_lending_metrics(positions) ==
    [total_supplied_value |-> SeqSum(Values(Select(positions, "lending_supply"))),
     total_borrowed_value |-> SeqSum(AbsValues(Select(positions, "lending_borrow"))),
     net_lending_value |-> SeqSum(Values(Select(positions, "lending_supply")))
                            - SeqSum(AbsValues(Select(positions, "lending_borrow"))),
     current_ltv |-> calculate_account_ltv(
                        SeqSum(AbsValues(Select(positions, "lending_borrow"))),
                        SeqSum(Values(Select(positions, "lending_supply")))),
     health_factor |-> calculate_health_factor(
                        Select(positions, "lending_supply"),
                        SeqSum(AbsValues(Select(positions, "lending_borrow"))),
                        AAVE_LIQUIDATION_THRESHOLDS),
     max_safe_borrow |-> Max({0, max_safe_borrow(
                        Select(positions, "lending_supply"),
                        SeqSum(Values(Select(positions, "lending_supply"))),
                        SeqSum(AbsValues(Select(positions, "lending_borrow"))))})]

positions_with_values(positions, current_prices, current_indices) ==
    [i \in DOMAIN positions |->
        [asset |-> positions[i].asset, position_type |-> positions[i].position_type,
         value |-> calculate_position_value(positions[i], current_prices, current_indices)]]

\* the outcome of the handler: a ValueError or the response dict
ValueError == [raised |-> TRUE, body |-> NoBody]
Profile(body) == [raised |-> FALSE, body |-> body]

\* data_warning: the look-back warning and the alignment warnings
data_warning(actual_days, alignment_warnings) ==
    [only_days |-> IF actual_days < 30 THEN actual_days ELSE None,
     alignment |-> alignment_warnings]
NoWarning == [only_days |-> None, alignment |-> {}]

\* steps 4 to 11 of calculate_risk_profile
profile_of_prices(positions, warning, current_prices, current_indices) ==
    IF \E i \in DOMAIN positions : value_raises(positions[i], current_prices, current_indices)
    THEN ValueError
    ELSE Profile(
        [current_portfolio_value |->
            calculate_portfolio_value(positions, current_prices, current_indices),
         data_availability_warning |-> warning,
         sensitivity_analysis |->
            calculate_sensitivity_table(positions, current_prices, current_indices),
         risk_metrics |->
            [lending_metrics |->
                IF has_lending(positions)
                THEN calculate_lending_metrics(
                        positions_with_values(positions, current_prices, current_indices))
                ELSE <<>>,
             delta_exposure |-> calculate_delta_exposure(positions)],
         scenarios |-> run_all_scenarios(positions, current_prices, current_indices),
         current_prices |-> current_prices])

\* steps 3.5 to 11, on the aligned panel
profile_of_panel(positions, actual_days, pan) ==
    IF pan.raised THEN ValueError
    ELSE IF \E i \in DOMAIN positions :
                \/ /\ positions[i].position_type \in lending_types
                   /\ positions[i].entry_index = None
                   /\ index_column(positions[i]) \notin DOMAIN pan.columns
                \/ /\ positions[i].position_type \notin lending_types
                   /\ price_column(positions[i]) \notin DOMAIN pan.columns
    THEN ValueError
    ELSE profile_of_prices(
            with_entry_index(positions, pan.columns),
            data_warning(actual_days, pan.warnings),
            extract_current_prices(pan.columns, Max(pan.timestamp), positions),
            IF has_lending(positions)
            THEN extract_current_indices(pan.columns, Max(pan.timestamp), positions)
            ELSE <<>>)

aligned_of_daily(daily) == align_time_series(daily.spot, daily.futures, daily.lending)
profile_of_frames(positions, fetched) ==
    profile_of_panel(positions, fetched.actual_days,
                     aligned_of_daily(resample_to_daily(fetched.spot, fetched.futures,
                                                        fetched.lending)))

\* calculate_risk_profile over tables whose futures rows cover `coverage` days
calculate_risk_profile(positions, lookback_days, coverage) ==
    IF ~positions_valid(positions) THEN ValueError
    ELSE profile_of_frames(positions,
            fetch_portfolio_data(Assets(positions), lookback_days,
                StoredReads(Assets(positions), Today - Days(lookback_days), Today, coverage)))

\* the endpoint's answer to what calculate_risk_profile did: ValueError -> 400
http_response(profile) ==
    IF profile.raised THEN [status |-> HTTP_400_BAD_REQUEST, body |-> NoBody]
    ELSE [status |-> HTTP_200_OK, body |-> profile.body]

\* the endpoint: pydantic validation, then the engine
calculate_portfolio_risk_profile(positions, lookback_days, coverage) ==
    IF ~request_valid(positions, lookback_days)
    THEN [status |-> HTTP_422_UNPROCESSABLE_ENTITY, body |-> NoBody]
    ELSE http_response(calculate_risk_profile(positions, lookback_days, coverage))

RiskResponse(positions, lookback_days, coverage, answer) ==
    [endpoint |-> "risk_profile", assets |-> Assets(positions),
     start |-> Today - Days(lookback_days), end |-> Today, status |-> answer.status,
     positions |-> positions, lookback_days |-> lookback_days, coverage |-> coverage,
     body |-> answer.body]

CalculatePortfolioRiskProfile(positions, lookback_days, coverage) ==
    /\ response' = RiskResponse(positions, lookback_days, coverage,
                        calculate_portfolio_risk_profile(positions, lookback_days, coverage))
    /\ UNCHANGED <<datavars, schedvars, clientvars, alignvars, chatvars, indexvars>>

\* requests
Portfolios ==
    {<<Pos("BTC", 1, "spot", 50000, 1, None), Pos("ETH", 10, "spot", 3000, 1, None)>>,
     <<Pos("BTC", 1, "futures_long", 40000, 2, None)>>,
     <<Pos("WETH", 5, "lending_supply", 0, 1, IndexAt(Today)),
       Pos("USDC", 7500, "lending_borrow", 0, 1, IndexAt(Today))>>,
     <<Pos("WETH", 5, "lending_supply", 0, 1, None)>>,
     <<Pos("DOGE", 3, "spot", 1, 1, None)>>,
     <<Pos("BTC", 1, "spot", 0, 1, None)>>,
     <<>>}
Lookbacks == {6, 7, 30, 31, MaxLookback}
Coverages == {30, MaxLookback}

ApiNext ==
    \/ \E asset \in StatsAssets, start \in StatsInstants, end \in StatsInstants :
        GetAggregatedStatsSingle(asset, start, end)
    \/ \E asset_list \in AssetLists, start \in StatsInstants,
          end \in StatsInstants :
        GetAggregatedStatsMulti(asset_list, start, end)
    \/ \E positions \in Portfolios, lookback_days \in Lookbacks, coverage \in Coverages :
        CalculatePortfolioRiskProfile(positions, lookback_days, coverage)
ApiInit == Init /\ stream = <<"BTC", "spot">> /\ holes = {}
ApiSpec == ApiInit /\ [][ApiNext]_vars

\* ------------------------------------------------------------- chat service
\* One chat. The API process and the RQ workers each hold their own ChatStore;
\* every ChatStore method is a GET of the record (_get_record) followed by a
\* write of the changed copy (_write_record), and the steps of different
\* processes interleave between the two.
Workers == 1..NumWorkers
NoPortfolio == <<>>                                  \* portfolio = None
Thinking == <<"thinking", 0>>                        \* "[Agent is thinking...]"
ChatMessage(type, message, reasonings) ==
    [type |-> type, message |-> message, reasonings |-> reasonings]
Last(seq) == seq[Len(seq)]

create_chat ==
    [exists |-> TRUE, status |-> "queued", messages |-> <<>>, portfolio |-> NoPortfolio,
     portfolio_versions |-> <<>>]

\* the messages commit_agent_result leaves: the placeholder takes the text of
\* the first agent message and keeps its reasonings
committed_messages(messages, agent_messages) ==
    IF /\ agent_messages # <<>>
       /\ messages # <<>>
       /\ Last(messages).type = "agent"
       /\ Last(messages).message = Thinking
    THEN [messages EXCEPT ![Len(messages)].message = agent_messages[1].message]
            \o Tail(agent_messages)
    ELSE messages \o agent_messages

commit_agent_result(record, agent_messages, portfolio, status) ==
    [record EXCEPT !.messages = committed_messages(@, agent_messages),
                   !.portfolio = IF portfolio # NoPortfolio THEN portfolio ELSE @,
                   !.status = status]

add_user_message(record, message) ==
    [record EXCEPT !.messages = Append(@, ChatMessage("user", message, <<>>)),
                   !.status = "queued"]

mark_processing(record) == [record EXCEPT !.status = "processing"]

append_reasoning(record, reasoning) ==
    IF record.messages # <<>> /\ Last(record.messages).type = "agent"
    THEN [record EXCEPT !.messages[Len(record.messages)].reasonings = Append(@, reasoning)]
    ELSE [record EXCEPT !.messages = Append(@, ChatMessage("agent", Thinking, <<reasoning>>))]

add_portfolio_version(record, portfolio) ==
    [record EXCEPT !.portfolio_versions =
                        Append(@, [version |-> Len(@) + 1, positions |-> portfolio]),
                   !.portfolio = portfolio]

\* a tool of the agent writes through the store
tool_write(record, op, item) ==
    IF op = "append_reasoning" THEN append_reasoning(record, item)
    ELSE add_portfolio_version(record, item)
ToolOps == {"append_reasoning", "add_portfolio_version"}

IdleWorker ==
    [pc |-> "idle", job |-> 0, record |-> create_chat, steps |-> 0, op |-> "none",
     success |-> TRUE, reasonings |-> <<>>, current_portfolio |-> NoPortfolio]

\* what a finished store call did: <<kind, job or prompt, step>>
UserEffect(prompt) == <<"user", prompt, 0>>
AnswerEffect(job) == <<"answer", job, 0>>
ToolEffect(op, job, step) ==
    <<IF op = "append_reasoning" THEN "reasoning" ELSE "version", job, step>>

\* the result the agent hands to the worker
agent_messages(w) ==
    IF w.success THEN <<ChatMessage("agent", <<"answer", w.job>>, w.reasonings)>> ELSE <<>>

\* create_chat_service: the chat id is new, no other process knows it yet
CreateChat ==
    /\ ~chat.exists
    /\ chat' = add_user_message(create_chat, <<"prompt", 0>>)
    /\ written' = written \cup {UserEffect(0)}
    /\ rq' = Append(rq, 0)
    /\ prompts' = 1
    /\ UNCHANGED <<api, worker, handled>>
    /\ UNCHANGED <<datavars, schedvars, clientvars, alignvars, apivars, indexvars>>

\* followup_service: get_chat_service and the GET of add_user_message
FollowupGet ==
    /\ api.pc = "idle"
    /\ chat.exists
    /\ prompts <= MaxFollowups
    /\ api' = [pc |-> "add_user_message", prompt |-> prompts, record |-> chat]
    /\ prompts' = prompts + 1
    /\ UNCHANGED <<chat, rq, worker, written, handled>>
    /\ UNCHANGED <<datavars, schedvars, clientvars, alignvars, apivars, indexvars>>

\* the write of add_user_message
FollowupSet ==
    /\ api.pc = "add_user_message"
    /\ chat' = add_user_message(api.record, <<"prompt", api.prompt>>)
    /\ written' = written \cup {UserEffect(api.prompt)}
    /\ api' = [api EXCEPT !.pc = "enqueue"]
    /\ UNCHANGED <<rq, worker, prompts, handled>>
    /\ UNCHANGED <<datavars, schedvars, clientvars, alignvars, apivars, indexvars>>

FollowupEnqueue ==
    /\ api.pc = "enqueue"
    /\ rq' = Append(rq, api.prompt)
    /\ api' = [api EXCEPT !.pc = "idle"]
    /\ UNCHANGED <<chat, worker, written, prompts, handled>>
    /\ UNCHANGED <<datavars, schedvars, clientvars, alignvars, apivars, indexvars>>

\* a worker takes the next job; process_chat_request: the GET of mark_processing
Dequeue(w) ==
    /\ worker[w].pc = "idle"
    /\ rq # <<>>
    /\ rq' = Tail(rq)
    /\ worker' = [worker EXCEPT ![w] = [IdleWorker EXCEPT !.pc = "mark_processing",
                                                          !.job = Head(rq),
                                                          !.record = chat]]
    /\ UNCHANGED <<chat, api, written, prompts, handled>>
    /\ UNCHANGED <<datavars, schedvars, clientvars, alignvars, apivars, indexvars>>

\* the write of mark_processing
MarkProcessing(w) ==
    /\ worker[w].pc = "mark_processing"
    /\ chat' = mark_processing(worker[w].record)
    /\ worker' = [worker EXCEPT ![w].pc = "get_chat"]
    /\ UNCHANGED <<rq, api, written, prompts, handled>>
    /\ UNCHANGED <<datavars, schedvars, clientvars, alignvars, apivars, indexvars>>

\* get_chat: a follow-up starts from the portfolio of the record
GetChat(w) ==
    /\ worker[w].pc = "get_chat"
    /\ worker' = [worker EXCEPT ![w].pc = "agent",
                                ![w].current_portfolio =
                                    IF worker[w].job > 0 THEN chat.portfolio ELSE NoPortfolio]
    /\ UNCHANGED <<chat, rq, api, written, prompts, handled>>
    /\ UNCHANGED <<datavars, schedvars, clientvars, alignvars, apivars, indexvars>>

\* the agent calls a tool: the tool context changes, the store call GETs
ToolGet(w, op) ==
    /\ worker[w].pc = "agent"
    /\ worker[w].steps < MaxToolCalls
    /\ worker' = [worker EXCEPT
                    ![w].pc = "tool",
                    ![w].op = op,
                    ![w].steps = @ + 1,
                    ![w].record = chat,
                    ![w].reasonings =
                        IF op = "append_reasoning"
                        THEN Append(@, <<worker[w].job, worker[w].steps + 1>>) ELSE @,
                    ![w].current_portfolio =
                        IF op = "add_portfolio_version"
                        THEN <<worker[w].job, worker[w].steps + 1>> ELSE @]
    /\ UNCHANGED <<chat, rq, api, written, prompts, handled>>
    /\ UNCHANGED <<datavars, schedvars, clientvars, alignvars, apivars, indexvars>>

\* the write of append_reasoning or add_portfolio_version
ToolSet(w) ==
    /\ worker[w].pc = "tool"
    /\ chat' = tool_write(worker[w].record, worker[w].op, <<worker[w].job, worker[w].steps>>)
    /\ written' = written \cup {ToolEffect(worker[w].op, worker[w].job, worker[w].steps)}
    /\ worker' = [worker EXCEPT ![w].pc = "agent"]
    /\ UNCHANGED <<rq, api, prompts, handled>>
    /\ UNCHANGED <<datavars, schedvars, clientvars, alignvars, apivars, indexvars>>

\* the agent returns or raises: the GET of commit_agent_result
CommitGet(w, success) ==
    /\ worker[w].pc = "agent"
    /\ worker' = [worker EXCEPT ![w].pc = "commit_agent_result",
                                ![w].success = success,
                                ![w].record = chat]
    /\ UNCHANGED <<chat, rq, api, written, prompts, handled>>
    /\ UNCHANGED <<datavars, schedvars, clientvars, alignvars, apivars, indexvars>>

\* the write of commit_agent_result; the job is over
CommitSet(w) ==
    /\ worker[w].pc = "commit_agent_result"
    /\ chat' = commit_agent_result(
                    worker[w].record, agent_messages(worker[w]),
                    IF worker[w].success THEN worker[w].current_portfolio ELSE NoPortfolio,
                    IF worker[w].success THEN "completed" ELSE "failed")
    /\ written' = written \cup (IF worker[w].success THEN {AnswerEffect(worker[w].job)} ELSE {})
    /\ handled' = handled \cup {worker[w].job}
    /\ worker' = [worker EXCEPT ![w].pc = "idle"]
    /\ UNCHANGED <<rq, api, prompts>>
    /\ UNCHANGED <<datavars, schedvars, clientvars, alignvars, apivars, indexvars>>

ChatNext ==
    \/ CreateChat
    \/ FollowupGet
    \/ FollowupSet
    \/ FollowupEnqueue
    \/ \E w \in Workers :
        \/ Dequeue(w)
        \/ MarkProcessing(w)
        \/ GetChat(w)
        \/ \E op \in ToolOps : ToolGet(w, op)
        \/ ToolSet(w)
        \/ \E success \in BOOLEAN : CommitGet(w, success)
        \/ CommitSet(w)
ChatInit == Init /\ stream = <<"BTC", "spot">> /\ holes = {}
ChatSpec == ChatInit /\ [][ChatNext]_vars

\* ---------------------------------------------------------- lending indices
\* The lending history with its index columns. RAY values are in units of
\* 10^27: an index of 1 is 1.0.
MAX_RATE_RAY == 2
MIN_INDEX_RAY == 1
MAX_INDEX_RAY == 1000
ReserveAddress == "0x87870Bca3F3fD6335C3F4ce8392D69350B4fA4E2"

\* DuneLendingData.to_dict
DuneRecord(symbol, timestamp, reserve, rate, liquidity_index, variable_borrow_index) ==
    [asset |-> symbol, timestamp |-> timestamp, reserve_address |-> reserve,
     supply_rate_ray |-> rate, variable_borrow_rate_ray |-> rate,
     stable_borrow_rate_ray |-> 0,
     liquidity_index |-> liquidity_index, variable_borrow_index |-> variable_borrow_index]

_validate_lending_data(data_dict) ==
    /\ ~(data_dict.timestamp > now)
    /\ data_dict.reserve_address = ReserveAddress
    /\ \A rate \in {data_dict.supply_rate_ray, data_dict.variable_borrow_rate_ray,
                    data_dict.stable_borrow_rate_ray} :
          ~(rate < 0 \/ rate > MAX_RATE_RAY)
    /\ \A index \in {data_dict.liquidity_index, data_dict.variable_borrow_index} :
          ~(index < MIN_INDEX_RAY \/ index > MAX_INDEX_RAY)

\* data_by_asset[asset]: the valid records of the asset, in the order served
data_by_asset(lending_data_list, asset) ==
    SelectSeq(lending_data_list,
              LAMBDA data_dict : data_dict.asset = asset /\ _validate_lending_data(data_dict))

\* the row of the lendings table a record becomes
lending_row(data_dict) ==
    [ts |-> data_dict.timestamp, liquidity_index |-> data_dict.liquidity_index,
     variable_borrow_index |-> data_dict.variable_borrow_index]
lending_rows(data_list) == [i \in DOMAIN data_list |-> lending_row(data_list[i])]

\* fetch_dune_lending on what the query returned; the store of the assets in
\* store_fails raises and leaves their rows as they were
fetch_dune_lending_indices(stored, lending_data_list, store_fails) ==
    [asset \in DOMAIN stored |->
        IF asset \in store_fails THEN stored[asset]
        ELSE upsert_lending_batch(stored[asset],
                                  lending_rows(data_by_asset(lending_data_list, asset)))]

\* what the Dune query may return
IndexDays == {Days(StartDays - 1), Days(StartDays)}
IndexValues == {MIN_INDEX_RAY, MIN_INDEX_RAY + 1}
ValidRecords ==
    {DuneRecord(a, t, ReserveAddress, 0, l, v) :
        a \in LendingAssets, t \in IndexDays, l \in IndexValues, v \in IndexValues}
InvalidRecords ==
    {DuneRecord("WETH", Days(StartDays + 1), ReserveAddress, 0, MIN_INDEX_RAY, MIN_INDEX_RAY),
     DuneRecord("WETH", Days(StartDays), "0x", 0, MIN_INDEX_RAY, MIN_INDEX_RAY),
     DuneRecord("WETH", Days(StartDays), ReserveAddress, MAX_RATE_RAY + 1, MIN_INDEX_RAY,
                MIN_INDEX_RAY),
     DuneRecord("WETH", Days(StartDays), ReserveAddress, 0, MIN_INDEX_RAY - 1, MIN_INDEX_RAY),
     DuneRecord("WETH", Days(StartDays), ReserveAddress, 0, MIN_INDEX_RAY, MAX_INDEX_RAY + 1)}
DuneResults ==
    {<<>>}
    \cup {<<r>> : r \in ValidRecords \cup InvalidRecords}
    \cup {<<r, s>> : r \in ValidRecords, s \in ValidRecords \cup InvalidRecords}

FetchDuneLending(lending_data_list, store_fails) ==
    /\ lendings' = fetch_dune_lending_indices(lendings, lending_data_list, store_fails)
    /\ UNCHANGED <<datavars, schedvars, clientvars, alignvars, apivars, chatvars>>

LendingNext ==
    \E lending_data_list \in DuneResults, store_fails \in {{}, {"USDC"}} :
        FetchDuneLending(lending_data_list, store_fails)
LendingInit == Init /\ stream = <<"BTC", "spot">> /\ holes = {}
LendingSpec == LendingInit /\ [][LendingNext]_vars

\* ------------------------------------------- the scheduler after a startup
\* run_scheduler on the tables of the stream: the initial backfill runs once
\* (backfill_all(force=False)); from then on every execution of the fetch job
\* of the stream's family awaits the catch-up of the stream and then its
\* gap-fill.  `last.op` tells which of the two calls was made last; `last.k`
\* is not counted, so that the job is executed without end.

Called(op, status, reqs, tabs) ==
    [Ran(op, FALSE, status, reqs, tabs) EXCEPT !.k = last.k]

StartupReturns(out) ==
    /\ tables' = out.tabs
    /\ bstate' = [bstate EXCEPT ![stream] = out.state]
    /\ last' = Called("backfill", out.status, out.reqs, out.tabs)

\* await backfill_manager.backfill_all(force=False), then service.start()
StartupBackfill(fails) ==
    /\ pc = "initialize"
    /\ pc' = "wait"
    /\ StartupReturns(backfill(tables, stream, bstate[stream], FALSE, fails))
    /\ UNCHANGED <<now, rev, holes, stream>>
    /\ UNCHANGED <<lending_fetcher, running, exec, fired, skipped>>
    /\ UNCHANGED <<clientvars, servicevars>>

JobReturns(op, r) ==
    /\ tables' = [tables EXCEPT ![stream] = r.rows]
    /\ last' = Called(op, Returned(r), r.reqs, [tables EXCEPT ![stream] = r.rows])
    /\ UNCHANGED <<now, rev, holes, bstate, stream>>
    /\ UNCHANGED <<schedvars, clientvars, servicevars>>

\* fetch_job / futures_fetch_job: fetch_all_latest
JobCatchUp(fails) ==
    /\ pc = "wait"
    /\ last.op # "catch_up"
    /\ JobReturns("catch_up", catch_up(stream[2], tables[stream], fails))

\* fetch_job / futures_fetch_job: fill_all_gaps
JobFillGaps(fails) ==
    /\ pc = "wait"
    /\ last.op = "catch_up"
    /\ JobReturns("fill_gaps", gap_fill(stream[2], tables[stream], fails, 0))

\* the wall clock, between two calls
ClockAdvances(d) ==
    /\ now + d <= Days(MaxDays)
    /\ now' = now + d
    /\ UNCHANGED <<rev, holes, tables, bstate, stream, last>>
    /\ UNCHANGED <<schedvars, clientvars, servicevars>>

RecoveryNext ==
    \/ \E fails \in FailSets : StartupBackfill(fails)
    \/ \E fails \in FailSets : JobCatchUp(fails)
    \/ \E fails \in FailSets : JobFillGaps(fails)
    \/ \E d \in AdvanceSteps : ClockAdvances(d)
    \/ \E h \in holes : ProviderHeal(h)

RecoveryInit == Init /\ stream[1] = "BTC" /\ stream[2] \in GapFilled

\* The interval trigger fires the job without end, and from some time on the
\* provider answers every call.  Rows are never deleted from the table of a
\* gap-filled stream, so a table that is empty after the startup has been
\* empty since: while it is, executions in which no call fails keep being
\* made.
JobWhileEmpty == tables[stream] = {} /\ (JobCatchUp({}) \/ JobFillGaps({}))

ProviderWorksAgain == WF_vars(JobWhileEmpty)

RecoverySpec == RecoveryInit /\ [][RecoveryNext]_vars /\ ProviderWorksAgain

\* ------------------------------------------------------------------- claims
\* The step is an invocation of handler op.
Handler(op) == last'.k = last.k + 1 /\ last'.op = op

Unique(rows) == \A r1, r2 \in rows : r1.ts = r2.ts => r1 = r2

\* C1: batch upserts are idempotent on (asset, timestamp): a range fetch (the
\* fetch-and-upsert step of a backfill) that is run again over the same range
\* while the provider serves the same data leaves the table with the same rows
\* and the same row count, and no table ever holds two rows with the same
\* (asset, timestamp).
C1_UpsertIdempotent ==
    /\ [](\A s \in Streams : Unique(tables[s]))
    /\ [][(/\ Handler("fetch_range") /\ last.op = "fetch_range"
           /\ last'.reqs = last.reqs /\ last'.status = "returned"
           /\ last.status = "returned")
          => /\ tables' = tables
             /\ Cardinality(tables'[stream]) = Cardinality(tables[stream])]_vars

\* A second fetch of the two-day range found all its rows stored already.
C1_Witness ==
    /\ last.op = "fetch_range" /\ last.k = 2 /\ last.status = "returned"
    /\ stream[2] # "lending"
    /\ last.reqs = <<Req(Days(StartDays - 1), Days(StartDays), TRUE)>>
    /\ bstate[stream] = NoState
    /\ Cardinality(tables[stream]) >= 2 /\ last.added = 0

\* C2: when the backfill state of the stream is completed and force is false,
\* a backfill is skipped: it sends no request to the provider and writes
\* neither the series tables nor the backfill state.
C2_CompletedBackfillSkipped ==
    [][(/\ Handler("backfill") /\ ~last'.force
        /\ bstate[stream].exists /\ bstate[stream].completed)
       => /\ last'.status = "skipped" /\ last'.reqs = <<>>
          /\ tables' = tables /\ bstate' = bstate]_vars

\* A backfill without force was skipped on a stream that holds rows.
C2_Witness ==
    /\ last.op = "backfill" /\ ~last.force /\ last.status = "skipped"
    /\ bstate[stream].completed /\ tables[stream] # {}

\* C3: for every metric, when the provider fetch inside a backfill fails (the
\* backfill returns "failed"), the backfill state of the stream is persisted
\* with completed=false (a stream left without a completed state row counts),
\* and every timestamp stored before the failure is still in the table.
C3_FailedBackfillNotCompleted ==
    [][(Handler("backfill") /\ last'.status = "failed")
       => /\ ~(bstate'[stream].exists /\ bstate'[stream].completed)
          /\ Timestamps(tables[stream]) \subseteq Timestamps(tables'[stream])]_vars

\* C4: after a backfill whose fetch succeeds, the backfill state of the stream
\* has completed=true and its last_fetched_timestamp is the most recent
\* timestamp stored for the stream.
C4_StateAfterBackfill ==
    (last.op = "backfill" /\ last.status \in {"completed", "success"})
    => /\ bstate[stream].exists /\ bstate[stream].completed
       /\ bstate[stream].last_fetched_timestamp = get_latest_timestamp(tables[stream])

\* C5: a catch-up of a stream whose latest stored timestamp is L and whose
\* step is D sends no provider request when L + D > now, and otherwise
\* requests exactly the range [L + D, now].
C5_CatchUpRange ==
    [][(Handler("catch_up") /\ tables[stream] # {})
       => LET L == get_latest_timestamp(tables[stream])
              D == Interval(stream[2])
          IN  IF L + D > now THEN last'.reqs = <<>>
              ELSE /\ Len(last'.reqs) = 1
                   /\ last'.reqs[1].s = L + D /\ last'.reqs[1].e = now]_vars

\* A catch-up requested a range from the provider and stored new rows.
C5_Witness ==
    /\ last.op = "catch_up" /\ Len(last.reqs) = 1 /\ last.reqs[1].ok
    /\ last.reqs[1].s < last.reqs[1].e /\ last.added > 0

\* C6: a catch-up run right after a catch-up of the same stream (both return
\* normally, no time passes in between) adds no row to the store.
C6_SecondCatchUpAddsNothing ==
    [][(/\ Handler("catch_up") /\ last.op = "catch_up"
        /\ last.status = "returned" /\ last'.status = "returned")
       => last'.added = 0 /\ Timestamps(tables'[stream]) = Timestamps(tables[stream])]_vars

\* C7: after a gap-fill of a stream returns, gap detection on the resulting
\* table returns the empty list -- stated for the favourable case in which
\* every gap request succeeded and the provider lacks no record.
C7_GapFillClosure ==
    (/\ last.op = "fill_gaps" /\ last.status = "returned" /\ holes = {}
     /\ \A i \in 1..Len(last.reqs) : last.reqs[i].ok)
    => detect_gaps(tables[stream], Interval(stream[2])) = <<>>

\* C8: within one gap-fill, the failure of one gap does not stop the
\* invocation: every detected gap is requested from the adapter, in order, and
\* the rows of each gap whose fetch succeeded are stored.
C8_GapFailureIsolated ==
    [][Handler("fill_gaps")
       => LET gaps == detect_gaps(tables[stream], Interval(stream[2]))
          IN  /\ Len(last'.reqs) = Len(gaps)
              /\ \A i \in 1..Len(gaps) :
                    /\ last'.reqs[i].s = gaps[i][1] /\ last'.reqs[i].e = gaps[i][2]
                    /\ last'.reqs[i].ok
                       => Timestamps(fetch_and_store(stream[2], {}, gaps[i][1],
                                                     gaps[i][2], FALSE).rows)
                          \subseteq Timestamps(tables'[stream])]_vars

\* A gap-fill whose first gap failed requested the second gap and stored it.
C8_Witness ==
    /\ last.op = "fill_gaps" /\ Len(last.reqs) >= 2
    /\ ~last.reqs[1].ok /\ last.reqs[2].ok /\ last.added > 0

\* C9: in an execution of a scheduler job, the failure of the catch-up or the
\* gap-fill of one (asset, metric) does not prevent the others from being
\* attempted: an execution that has ended has attempted every catch-up and
\* gap-fill of the job.
C9_FailureDoesNotStopTick ==
    \A e \in Executions :
        (exec[e].pos = 0 /\ exec[e].attempted # {})
        => exec[e].attempted = {JobCalls(e[1])[i] : i \in 1..Len(JobCalls(e[1]))}

\* An execution of the futures job has ended in which a call raised and later
\* calls were made: it attempted the catch-ups and gap-fills of every asset
\* and metric.
C9_Witness ==
    \E o \in Origins :
        LET x == exec[<<"fetch_futures", o>>]
        IN  /\ x.pos = 0 /\ x.raised /\ x.went_on
            /\ \A a \in FuturesAssets, m \in FuturesMetrics : <<a, m, "catch_up">> \in x.attempted
            /\ \A a \in FuturesAssets : <<a, "mark_klines", "fill_gaps">> \in x.attempted

\* C10: of each of the three recurring jobs at most one execution is in
\* progress at any time, and a firing of the job's timer while an execution of
\* the job is in progress starts no execution.
C10_OneExecutionPerJob ==
    /\ [](\A j \in Jobs : Cardinality(InProgress(j)) <= 1)
    /\ [][\A j \in Jobs : (fired'[j] = fired[j] + 1 /\ InProgress(j) # {})
                          => (exec' = exec /\ skipped'[j] = skipped[j] + 1)]_vars

\* C11: on startup, for each metric family (spot, futures, lending) the
\* backfill has finished before the immediate catch-up of the family starts,
\* and the immediate catch-up has finished before the periodic timers are
\* started: no immediate execution is in progress or ended while run_scheduler
\* is still at a backfill, and while the timers run the immediate execution of
\* every job has been made and has ended.
C11_StartupOrder ==
    \A j \in Jobs :
        /\ exec[<<j, "immediate">>] # NotRunning
           => pc \notin {"initialize", "spot_backfill", "futures_backfill"}
        /\ running
           => /\ exec[<<j, "immediate">>].pos = 0
              /\ exec[<<j, "immediate">>].attempted # {}

\* C12: one adapter request makes at most 3 HTTP attempts in total, whatever
\* sequence of 429, 5xx and network errors the provider returns, and then
\* either returns a response or fails: a request that has made 3 attempts is
\* awaiting the third response, sleeping after it, or over, and never enters
\* the rate limiter for another attempt.
C12_AtMostThreeAttempts ==
    \A t \in ClientTasks :
        /\ task[t].attempts <= 3
        /\ task[t].attempts = 3
           => task[t].pc \in {"http", "backoff", "returned", "failed", "cancelled"}

\* A request failed after three attempts, the last of which got a 429.
C12_Witness ==
    \E t \in ClientTasks :
        /\ task[t].pc = "failed" /\ task[t].attempts = 3 /\ task[t].errors = 3
        /\ task[t].resp = "429"

\* C13: a provider response with a 4xx status other than 429 makes the adapter
\* request fail at once: the request whose latest response is such a 4xx has
\* failed, without a backoff sleep and without a further attempt.
C13_ClientErrorFailsFast ==
    \A t \in ClientTasks :
        task[t].resp = "4xx" => (task[t].pc = "failed" /\ task[t].timer = 0)

\* C14: after a provider answers a request with HTTP 429 and Retry-After = r
\* seconds, no task sends any request to that provider until r seconds have
\* passed: every HTTP call is made while no Retry-After of its client is
\* running.  (The clients own their limiters and share no state; the requests
\* to the other providers go on.)
C14_RetryAfterPausesProvider ==
    [][\A t \in ClientTasks :
          task'[t].attempts = task[t].attempts + 1 => pause[task'[t].client] = 0]_vars

C16_CancelReleasesPermits ==
    /\ \A t \in ClientTasks : task[t].pc = "cancelled" => ~task[t].permit
    /\ \A c \in Clients :
          (\A t \in ClientTasks :
              task[t].client = c => task[t].pc \in {"returned", "failed", "cancelled"})
          => limiter[c].value = semaphore_value(c)

\* C17: the rate limiter of a provider client is a token bucket on requests
\* per minute: the requests the client has started within any one minute are
\* never more than the requests_per_minute it was configured with.
C17_RequestsPerMinute ==
    \A c \in Clients :
        has_rate_limiter(c) => Len(started[c]) <= requests_per_minute(c)

\* The records a successful range request of metric m returns, in the order
\* in which the batch upsert writes them.
Fetched(m, start_time, end_time) ==
    CASE m = "spot" -> ToRows(get_klines_paginated(start_time, end_time, <<>>))
      [] m = "funding_rate" ->
            ToRows(get_funding_rate_history_paginated(start_time, end_time, <<>>))
      [] m = "mark_klines" ->
            ToRows(get_mark_price_klines_paginated(start_time, end_time, <<>>))
      [] m = "index_klines" ->
            ToRows(get_index_price_klines_paginated(start_time, end_time, <<>>))
      [] m = "open_interest" ->
            ToRows(get_open_interest_history_paginated(start_time, end_time, <<>>))

\* The timestamps a handler invocation upserted, in the order of the upserts.
RECURSIVE WriteLog(_, _, _)
WriteLog(m, reqs, i) ==
    IF i > Len(reqs) THEN <<>>
    ELSE (IF reqs[i].ok
          THEN [k \in 1..Len(Fetched(m, reqs[i].s, reqs[i].e)) |->
                   Fetched(m, reqs[i].s, reqs[i].e)[k].ts]
          ELSE <<>>) \o WriteLog(m, reqs, i + 1)

StrictlyAscending(seq) == \A i, j \in 1..Len(seq) : i < j => seq[i] < seq[j]

\* C18 (as claimed): within one ingestion task of an (asset, metric) -- a
\* backfill run, or the catch-up of a tick followed by its gap-fill -- rows are
\* upserted in strictly ascending timestamp order: no upsert writes a
\* timestamp earlier than or equal to one written earlier in the same task.
C18_AscendingWithinTask ==
    [][/\ (Handler("backfill") /\ stream[2] \in RangeFetched)
          => StrictlyAscending(WriteLog(stream[2], last'.reqs, 1))
       /\ (Handler("fill_gaps") /\ last.op = "catch_up")
          => StrictlyAscending(WriteLog(stream[2], last.reqs, 1)
                               \o WriteLog(stream[2], last'.reqs, 1))]_vars

\* C18 (amended): the rows of one range request are upserted in strictly
\* ascending timestamp order, and so are all the rows of one gap-fill, whose
\* gaps are filled from the earliest to the latest.
C18_AscendingWithinRequest ==
    [][(last'.k = last.k + 1 /\ stream[2] \in RangeFetched)
       => /\ \A i \in 1..Len(last'.reqs) :
                StrictlyAscending(WriteLog(stream[2], <<last'.reqs[i]>>, 1))
          /\ last'.op = "fill_gaps" => StrictlyAscending(WriteLog(stream[2], last'.reqs, 1))]_vars

\* A handler stored the rows of a request that took more than one page.
C18_Witness ==
    /\ stream[2] \in RangeFetched
    /\ last.op \in {"backfill", "catch_up", "fill_gaps"}
    /\ \E i \in 1..Len(last.reqs) :
          /\ last.reqs[i].ok
          /\ Len(WriteLog(stream[2], <<last.reqs[i]>>, 1)) > PageLimit
    /\ last.added > PageLimit

\* C19: open-interest ingestion, backfill and catch-up alike, never requests
\* data with a start time earlier than the retention (30 days) before the
\* current time, whatever the look-back.
C19_OpenInterestWithinRetention ==
    [][((Handler("backfill") \/ Handler("catch_up")) /\ stream[2] = "open_interest")
       => \A i \in 1..Len(last'.reqs) :
             last'.reqs[i].s >= now - Days(OIRetentionDays)]_vars

\* The look-back of the backfill of metric m, and the step it leaves before
\* the earliest stored row.
LookbackDays(m) ==
    CASE m = "spot" -> InitialBackfillDays
      [] m \in {"funding_rate", "mark_klines", "index_klines"} -> FuturesTargetDays
      [] m = "open_interest" ->
            IF OITargetDays < OIRetentionDays THEN OITargetDays ELSE OIRetentionDays

BackfillStep(m) ==
    CASE m = "spot" -> Hours(SpotIntervalHours)
      [] m = "open_interest" -> OIBackfillStepMinutes
      [] OTHER -> Interval(m)

\* C20: with target_start = now - lookback, a backfill that is not skipped
\* and finds stored data whose earliest timestamp e is later than target_start
\* requests the range [target_start, e - D] from the provider first, D being
\* the step of the metric, and a backfill that is not skipped and finds no
\* stored data requests the range [target_start, now].
C20_BackfillRange ==
    [][(Handler("backfill") /\ stream[2] \in RangeFetched /\ last'.status # "skipped")
       => LET target_start == now - Days(LookbackDays(stream[2]))
              e == get_earliest_timestamp(tables[stream])
          IN  /\ (tables[stream] # {} /\ e > target_start)
                 => /\ Len(last'.reqs) >= 1
                    /\ last'.reqs[1].s = target_start
                    /\ last'.reqs[1].e = e - BackfillStep(stream[2])
              /\ tables[stream] = {}
                 => /\ Len(last'.reqs) >= 1
                    /\ last'.reqs[1].s = target_start
                    /\ last'.reqs[1].e = now]_vars

\* A backfill of funding rates that found stored data fetched the range
\* before it and stored rows of that range.
C20_Witness ==
    /\ last.op = "backfill" /\ last.status = "success"
    /\ stream[2] = "funding_rate"
    /\ Len(last.reqs) >= 1 /\ last.reqs[1].ok
    /\ last.reqs[1].s = now - Days(FuturesTargetDays)
    /\ last.reqs[1].e < now /\ last.reqs[1].s <= last.reqs[1].e
    /\ last.added > 0

\* a storage read of asset a raised / the reads of asset a returned rows
ReadFailed(a) == \E k \in ReadKinds : gathered[<<a, k>>].raised
ReturnedRows(a, k) == ~gathered[<<a, k>>].raised /\ DOMAIN gathered[<<a, k>>].rows # {}
\* the panel columns the rows read for asset a make
ExpectedColumns(a) ==
    (IF ReturnedRows(a, "spot") THEN {<<a, "spot">>} ELSE {})
    \cup (IF ReturnedRows(a, "mark") THEN {<<a, "futures_mark">>, <<a, "funding">>} ELSE {})
    \cup (IF ReturnedRows(a, "lending")
          THEN {<<a, lending_column(c)>> : c \in frame_columns(gathered[<<a, "lending">>].rows)}
          ELSE {})

C22_PanelComplete ==
    align_pc = "aligned" =>
        \A n \in DOMAIN panel.columns :
            /\ DOMAIN panel.columns[n] = panel.timestamp
            /\ \A d \in panel.timestamp : panel.columns[n][d] # NaN

\* A panel of all the days in which one column had a leading gap (a warning
\* was given) that the backward fill closed, and another column had a gap
\* in the middle that the forward fill closed.
C22_Witness ==
    /\ align_pc = "aligned"
    /\ Cardinality(panel.timestamp) = PanelDays
    /\ \E w \in panel.warnings : w.na_count > 0 /\ w.column[2] = "futures_mark"
    /\ \E a \in req_assets :
          /\ DaysOf(gathered[<<a, "spot">>].rows) = {Days(d) : d \in PanelDaySet \ {1}}
          /\ panel.columns[<<a, "spot">>][Days(1)] = panel.columns[<<a, "spot">>][Days(0)]

\* ---- analysis API claims
IsRiskProfile == response.endpoint = "risk_profile"
Served == response.status = HTTP_200_OK

\* C23: a risk-profile request with at least one futures position and
\* lookback_days > 30 is answered with a data-availability warning, and the
\* answer still carries the risk metrics.
C23_FuturesLookbackWarned ==
    (/\ IsRiskProfile
     /\ request_valid(response.positions, response.lookback_days)
     /\ has_futures(response.positions)
     /\ response.lookback_days > 30)
        => /\ Served
           /\ "risk_metrics" \in DOMAIN response.body
           /\ response.body.data_availability_warning # NoWarning

IsStats == response.endpoint \in {"stats_single", "stats_multi"}

\* C24: an aggregated-stats request, single-asset or multi-asset, is rejected
\* whenever end is before start or end - start is longer than 90 days.
C24_RangeRejected ==
    (/\ IsStats
     /\ \/ response.end < response.start
        \/ response.end - response.start > Days(max_period_days))
        => ~Served

\* the shock a scenario lists for an asset, its default for an unlisted one
listed_shock(scenario_def, asset) ==
    Get(scenario_def.shocks, <<asset>>, Get(scenario_def.shocks, <<"default">>, 0))
listed_prices(base_prices, scenario_def) ==
    [k \in DOMAIN base_prices |->
        (base_prices[k] * (100 + listed_shock(scenario_def, k[1]))) \div 100]
AssetSpecific == {k \in DOMAIN SCENARIOS : SCENARIOS[k].shock_type = "asset_specific"}

\* C25: in an asset-specific scenario of a served risk profile every spot or
\* futures position is valued at its price shocked by the shock listed for
\* its asset, by the default only when the asset is not listed; alt season
\* on {BTC 1 spot, ETH 10 spot} raises BTC by 20% and ETH by 50%.
C25_AssetShockApplied ==
    (IsRiskProfile /\ Served /\ ~has_lending(response.positions))
        => \A k \in AssetSpecific :
            response.body.scenarios[k].portfolio_value
                = calculate_portfolio_value(
                    response.positions,
                    listed_prices(response.body.current_prices, SCENARIOS[k]), <<>>)

SuppliesAndBorrows ==
    /\ IsRiskProfile /\ Served
    /\ Quote("WETH") = 2000
    /\ response.positions
        = <<Pos("WETH", 5, "lending_supply", 0, 1, IndexAt(Today)),
            Pos("USDC", 7500, "lending_borrow", 0, 1, IndexAt(Today))>>

\* C26: supplying 5 WETH at a WETH price of 2000 USD and borrowing 7,500
\* USDC, entry indices equal to the current ones, gives health factor 1.10,
\* LTV 0.75 and max_safe_borrow 500 (ratios in basis points).
C26_LendingMetrics ==
    SuppliesAndBorrows
        => /\ response.body.risk_metrics.lending_metrics.health_factor = 11000
           /\ response.body.risk_metrics.lending_metrics.current_ltv = 7500
           /\ response.body.risk_metrics.lending_metrics.max_safe_borrow = 500

\* ---- chat service claims
\* what a chat record holds, as the store calls that put it there
Held(record) ==
    {UserEffect(record.messages[i].message[2]) :
        i \in {j \in DOMAIN record.messages : record.messages[j].type = "user"}}
    \cup {AnswerEffect(record.messages[i].message[2]) :
            i \in {j \in DOMAIN record.messages : record.messages[j].message[1] = "answer"}}
    \cup UNION {{<<"reasoning", record.messages[i].reasonings[k][1],
                   record.messages[i].reasonings[k][2]>> :
                    k \in DOMAIN record.messages[i].reasonings} : i \in DOMAIN record.messages}
    \cup {<<"version", record.portfolio_versions[i].positions[1],
            record.portfolio_versions[i].positions[2]>> : i \in DOMAIN record.portfolio_versions}

\* C28: the write of commit_agent_result keeps everything the record holds:
\* no user message, reasoning or portfolio version that another store call
\* put there while commit_agent_result was running is lost.
C28_CommitLosesNothing ==
    [][(\E w \in Workers : CommitSet(w)) => Held(chat) \subseteq Held(chat')]_vars

UserPrompts == {e[2] : e \in {x \in written : x[1] = "user"}}

\* C30: the chat shows 'completed' only when the job of every user message
\* added to it has run.
C30_CompletedMeansHandled == chat.status = "completed" => UserPrompts \subseteq handled

\* ---- lending index claims
NonDecreasing(rows, column) ==
    \A r \in rows, s \in rows : r.ts < s.ts => r[column] <= s[column]

BackfillFailedEmpty ==
    /\ pc = "wait"
    /\ bstate[stream].exists
    /\ ~bstate[stream].completed
    /\ tables[stream] = {}

\* C29: if the initial backfill of a tracked asset failed while its table was
\* empty, then, the provider working again, an execution of the fetch job
\* stores data for the asset.
C29_TickStoresAfterFailedBackfill == BackfillFailedEmpty ~> (tables[stream] # {})

====
